---- MODULE Spec2Model ----
(***************************************************************************)
(* PlagiarismDetector (exam_automator/backend/services/                    *)
(* plagiarism_detector.py): text similarity, the two-stage AI classifier,  *)
(* the all-pairs internal duplication scan and the report assembly of      *)
(* check_against_submissions.                                              *)
(*                                                                         *)
(* Numbers.  A similarity ratio r in [0,1] is the integer r * 10^5, and a  *)
(* percentage p is the integer p * 10^3 (so ratio * 100 is the same        *)
(* integer).  round(x, 2) keeps multiples of 10.  At the text lengths of   *)
(* the model every comparison against a threshold is exact.                *)
(*                                                                         *)
(* Text.  A string is a sequence of one-character strings.                 *)
(***************************************************************************)
EXTENDS Integers, Sequences, FiniteSets, TLC

VARIABLES
    client,             \* self.client is set (an LLM client is configured)
    model,              \* self.model
    thresholds,         \* self.thresholds
    use_vector_db,      \* self.use_vector_db
    vector_manager,     \* self.vector_manager is not None
    op,                 \* the public method being executed
    pc,                 \* position inside it
    submission_text,    \* argument submission_text (detect: code)
    submission_type,    \* argument submission_type
    files_content,      \* argument files_content: sequence of file contents
    done_pairs,         \* compare loop: number of (i, j) pairs processed
    matches,            \* compare_files_within_submission: local matches
    comparisons,        \* history: the (i, j) pairs handed to calculate_text_similarity
    llm_log,            \* history: requests issued to the LLM provider, in order
    triage_resp,        \* what the LLM answered to the triage request
    deep_resp,          \* what the LLM answered to the deep-analysis request
    forensic_resp,      \* what the LLM answered to the latest forensic request
    index_resp,         \* what search_similar_submissions answered
    similarity_matches, \* check_against_submissions: local similarity_matches
    flagged_sections,   \* check_against_submissions: local flagged_sections
    sources_checked,    \* check_against_submissions: local sources_checked
    ai_detection,       \* value returned by detect_ai_generated_code
    report,             \* the PlagiarismReport returned
    args,               \* the arguments of a helper method called on its own
    retval,             \* what that method, or the renderer, returned
    raised              \* an exception left the public method

vars == <<client, model, thresholds, use_vector_db, vector_manager, op, pc,
          submission_text, submission_type, files_content, done_pairs, matches,
          comparisons, llm_log, triage_resp, deep_resp, forensic_resp,
          index_resp, similarity_matches, flagged_sections, sources_checked,
          ai_detection, report, args, retval, raised>>

\* the attributes __init__ sets
config == <<client, model, thresholds, use_vector_db, vector_manager>>

-----------------------------------------------------------------------------
(* Generic helpers *)

None == "None"

Min(a, b) == IF a <= b THEN a ELSE b
Max(a, b) == IF a >= b THEN a ELSE b

\* s[:n]
Take(s, n) == SubSeq(s, 1, Min(n, Len(s)))

\* the element of a one-element set.  Only({ e : x \in {value} }) is e with
\* x a local variable: value is computed once, however often e reads x
Only(S) == CHOOSE r \in S : TRUE

\* max(S) and min(S) of a non-empty set of integers
MaxOf(S) == Only({ CHOOSE n \in T : \A m \in T : n >= m : T \in {S} })
MinOf(S) == Only({ CHOOSE n \in T : \A m \in T : n <= m : T \in {S} })

\* the k-th smallest element of a set of integers
NthOf(S, k) == CHOOSE i \in S : Cardinality({ x \in S : x < i }) = k - 1

\* round(x, 2) of a percentage held in thousandths
Round2(x) == ((x + 5) \div 10) * 10

-----------------------------------------------------------------------------
(* Text: str.lower, str.split, str.join, str.strip *)

IsSpace(c) == c \in {" ", "\n"}

Lower(c) == CASE c = "A" -> "a"
              [] c = "B" -> "b"
              [] c = "C" -> "c"
              [] c = "X" -> "x"
              [] c = "T" -> "t"
              [] OTHER   -> c

LowerText(t) == [i \in 1..Len(t) |-> Lower(t[i])]

\* text.split(): the maximal runs of non-whitespace characters, from the
\* positions where a word starts
WordStarts(t) ==
    { i \in 1..Len(t) : ~IsSpace(t[i]) /\ (i = 1 \/ IsSpace(t[i - 1])) }

\* the last position of the word that starts at i
WordEnd(t, i) ==
    CHOOSE e \in i..Len(t) :
        /\ \A k \in i..e : ~IsSpace(t[k])
        /\ e = Len(t) \/ IsSpace(t[e + 1])

Split(t) ==
    Only({ [k \in 1..Cardinality(starts) |->
               Only({ SubSeq(t, i, WordEnd(t, i)) : i \in {NthOf(starts, k)} })]
           : starts \in {WordStarts(t)} })

\* sep.join(words)
RECURSIVE Join(_, _)
Join(words, sep) ==
    IF words = <<>> THEN <<>>
    ELSE IF Len(words) = 1 THEN words[1]
    ELSE LET half == Len(words) \div 2
         IN Join(SubSeq(words, 1, half), sep) \o sep
            \o Join(SubSeq(words, half + 1, Len(words)), sep)

\* bool(text.strip())
StripNonEmpty(t) == \E i \in 1..Len(t) : ~IsSpace(t[i])

\* a variant that keeps the case
NormalizeNoLower(text) == Join(Split(text), <<" ">>)

\* _normalize_text
NormalizeText(text) == Join(Split(LowerText(text)), <<" ">>)

-----------------------------------------------------------------------------
(* difflib.SequenceMatcher(None, a, b).ratio(), no junk (len(b) < 200) *)

\* length of the common run of a[i..ahi] and b[j..bhi] starting at i, j
RunLen(a, b, i, j, ahi, bhi) ==
    LET limit == Min(ahi - i, bhi - j) + 1
    IN IF limit <= 0 THEN 0
       ELSE CHOOSE n \in 0..limit :
               /\ \A k \in 0..(n - 1) : a[i + k] = b[j + k]
               /\ n = limit \/ a[i + n] # b[j + n]

\* find_longest_match: the longest block, earliest in a, then earliest in b
FindLongestMatch(a, b, alo, ahi, blo, bhi) ==
    LET \* of the blocks of that size, the earliest in a, then the earliest in b
        Earliest(blocks) ==
            Only({ <<besti, MinOf({ r[2] : r \in { q \in blocks : q[1] = besti } })>>
                   : besti \in {MinOf({ r[1] : r \in blocks })} })
        Best(cand, size) ==
            IF size = 0 THEN <<alo, blo, 0>>
            ELSE Earliest({ r \in cand : r[3] = size }) \o <<size>>
    IN Only({ Only({ Best(cand, size)
                     : size \in {MaxOf({0} \cup { r[3] : r \in cand })} })
              : cand \in {{ <<i, j, RunLen(a, b, i, j, ahi, bhi)>> :
                              i \in alo..ahi, j \in blo..bhi }} })

\* sum of the sizes of get_matching_blocks()
RECURSIVE MatchCount(_, _, _, _, _, _)
MatchCount(a, b, alo, ahi, blo, bhi) ==
    Only({ IF m[3] = 0 THEN 0
           ELSE m[3]
                + MatchCount(a, b, alo, m[1] - 1, blo, m[2] - 1)
                + MatchCount(a, b, m[1] + m[3], ahi, m[2] + m[3], bhi)
           : m \in {FindLongestMatch(a, b, alo, ahi, blo, bhi)} })

\* ratio(): 2.0 * matches / (len(a) + len(b)), 1.0 when both are empty
Ratio(a, b) ==
    IF Len(a) + Len(b) = 0 THEN 100000
    ELSE (200000 * MatchCount(a, b, 1, Len(a), 1, Len(b))) \div (Len(a) + Len(b))

\* a variant that compares the texts as they are
SimilarityNoNormalize(text1, text2) == Ratio(text1, text2)

\* calculate_text_similarity
calculate_text_similarity(text1, text2) ==
    Ratio(NormalizeText(text1), NormalizeText(text2))

-----------------------------------------------------------------------------
(* Chunk matching: _split_into_chunks, _classify_match_type,               *)
(* find_matching_sections                                                  *)

\* self.thresholds as __init__ sets it
InitialThresholds == [high_similarity   |-> 85000,
                      medium_similarity |-> 70000,
                      low_similarity    |-> 50000,
                      exact_match       |-> 95000]

ChunkSize == 100
MinChunkChars == 20
MinLength == 50

\* range(0, n, step), as 1-based start positions
RangeStep(n, step) == { i \in 1..n : (i - 1) % step = 0 }

\* _split_into_chunks: windows of chunk_size words every chunk_size // 2 words,
\* kept when longer than 20 characters
SplitIntoChunks(text, chunk_size) ==
    LET chunk(words, i) ==
            Join(SubSeq(words, i, Min(i + chunk_size - 1, Len(words))), <<" ">>)
        starts(words) ==
            { i \in RangeStep(Len(words), chunk_size \div 2) :
                Len(chunk(words, i)) > MinChunkChars }
    IN Only({ Only({ [k \in 1..Cardinality(kept) |-> chunk(words, NthOf(kept, k))]
                     : kept \in {starts(words)} })
              : words \in {Split(text)} })

\* _classify_match_type
ClassifyMatchType(similarity) ==
    IF similarity >= thresholds.exact_match THEN "exact"
    ELSE IF similarity >= thresholds.high_similarity THEN "near_exact"
    ELSE IF similarity >= thresholds.medium_similarity THEN "paraphrased"
    ELSE "structural"

\* list.sort(key = similarity, reverse = True): stable, highest first
RECURSIVE InsertDesc(_, _)
InsertDesc(sorted, x) ==
    IF sorted = <<>> THEN <<x>>
    ELSE IF sorted[1].similarity >= x.similarity
         THEN <<sorted[1]>> \o InsertDesc(Tail(sorted), x)
         ELSE <<x>> \o sorted

\* a variant that leaves the list in the order it was built
Unsorted(s) == s

RECURSIVE SortDesc(_)
SortDesc(s) == IF s = <<>> THEN <<>>
               ELSE InsertDesc(SortDesc(SubSeq(s, 1, Len(s) - 1)), s[Len(s)])

\* find_matching_sections
find_matching_sections(text1, text2, min_length) ==
    LET entry(chunks1, chunks2, i, j) ==
            Only({ IF similarity >= thresholds.medium_similarity
                      /\ Len(chunks1[i]) >= min_length
                   THEN << [source_index |-> i - 1,
                            target_index |-> j - 1,
                            similarity   |-> Round2(similarity),
                            length       |-> Len(chunks1[i]),
                            match_type   |-> ClassifyMatchType(similarity)] >>
                   ELSE <<>>
                   : similarity \in
                       {calculate_text_similarity(chunks1[i], chunks2[j])} })
        RECURSIVE Row(_, _, _, _)
        Row(chunks1, chunks2, i, j) ==
            IF j > Len(chunks2) THEN <<>>
            ELSE entry(chunks1, chunks2, i, j) \o Row(chunks1, chunks2, i, j + 1)
        RECURSIVE Rows(_, _, _)
        Rows(chunks1, chunks2, i) ==
            IF i > Len(chunks1) THEN <<>>
            ELSE Row(chunks1, chunks2, i, 1) \o Rows(chunks1, chunks2, i + 1)
    IN Only({ SortDesc(Rows(chunks1, chunks2, 1))
              : chunks1 \in {SplitIntoChunks(text1, ChunkSize)},
                chunks2 \in {SplitIntoChunks(text2, ChunkSize)} })

-----------------------------------------------------------------------------
(* What the LLM provider answers to one chat.completions.create call       *)
(*   [kind |-> "raise"]                        the call raises             *)
(*   [kind |-> "text", json |-> "none", ...]   no {...} in the text        *)
(*   [kind |-> "text", json |-> "invalid"]     {...} found, not valid JSON *)
(*   [kind |-> "text", json |-> "object", obj |-> d]   {...} parses to d   *)
(* A parsed object d is a function from its keys: a key the LLM left out   *)
(* is not in DOMAIN d.                                                     *)

EmptyDict == [k \in {} |-> None]

\* dict.get(key, default)
Get(d, key, default) == IF key \in DOMAIN d THEN d[key] ELSE default

Raises == [kind |-> "raise"]
NoJson(ai, generated) ==
    [kind |-> "text", json |-> "none", has_ai |-> ai, has_generated |-> generated]
\* the deep-analysis text is cut inside the object it was asked for, whose
\* keys spell "is_ai_generated"
InvalidJson == [kind |-> "text", json |-> "invalid", has_ai |-> TRUE,
                has_generated |-> TRUE]
JsonObject(d) == [kind |-> "text", json |-> "object", obj |-> d]

\* re.search(r'\{.*\}', text, re.DOTALL) finds a match
JsonMatch(resp) == resp.json # "none"

-----------------------------------------------------------------------------
(* detect_ai_generated_code.  A confidence the LLM reports is held in      *)
(* thousandths: 85 is 85000, 0.9 is 900.                                   *)

\* returned when self.client is None
NoClientResult ==
    [is_ai_generated      |-> FALSE,
     confidence           |-> 0,
     indicators           |-> <<>>,
     detailed_indicators  |-> <<>>,
     human_elements       |-> <<>>,
     confidence_breakdown |-> EmptyDict,
     explanation          |-> "AI detection unavailable (no API key)",
     recommendation       |-> "Manual review recommended",
     ai_tool_signature    |-> "unknown"]

\* returned by the except clause: explanation is "Analysis error: " + str(e)
ErrorResult ==
    [is_ai_generated     |-> FALSE,
     confidence          |-> 0,
     indicators          |-> <<>>,
     detailed_indicators |-> <<>>,
     explanation         |-> "Analysis error: " \o "e"]

\* The outcome of a stretch of code inside a try block: it raised, it
\* returned value, or it fell through to the next statement.
Raised == [exc |-> TRUE, returns |-> FALSE, value |-> EmptyDict]
Returned(v) == [exc |-> FALSE, returns |-> TRUE, value |-> v]
FallThrough == [exc |-> FALSE, returns |-> FALSE, value |-> EmptyDict]

\* the triage dict: json.loads of the match, or the default without a match
TriageResult(resp) ==
    IF JsonMatch(resp) THEN resp.obj
    ELSE [quick_verdict |-> "uncertain", proceed_to_deep_analysis |-> TRUE]

\* a variant that ignores proceed_to_deep_analysis
ShortCircuitAlways(triage_result) ==
    Get(triage_result, "confidence_level", None) = "high"

\* a variant that goes on to the deep analysis only when told to
ShortCircuitUnlessTold(triage_result) ==
    /\ Get(triage_result, "confidence_level", None) = "high"
    /\ ~Get(triage_result, "proceed_to_deep_analysis", FALSE)

\* the condition of the early return
ShortCircuit(triage_result) ==
    /\ Get(triage_result, "confidence_level", None) = "high"
    /\ ~Get(triage_result, "proceed_to_deep_analysis", TRUE)

\* the early return value
TriageVerdict(triage_result) ==
    [is_ai_generated |-> Get(triage_result, "quick_verdict", None) = "ai_generated",
     confidence      |-> Get(triage_result, "initial_confidence", 85000),
     indicators      |-> << "Quick triage: " \o Get(triage_result, "quick_verdict", "") >>,
     verdict         |-> Get(triage_result, "quick_verdict", ""),
     explanation     |-> "High confidence determination from initial analysis"]

\* STAGE 1, from the triage response to the early return
TriageStage(resp) ==
    IF resp.kind = "raise" THEN Raised
    ELSE IF resp.json = "invalid" THEN Raised
    ELSE IF ShortCircuit(TriageResult(resp)) THEN Returned(TriageVerdict(TriageResult(resp)))
    ELSE FallThrough

Upper(sev) == CASE sev = "critical" -> "CRITICAL"
                [] sev = "high"     -> "HIGH"
                [] sev = "medium"   -> "MEDIUM"
                [] sev = "low"      -> "LOW"
                [] OTHER            -> sev

\* result["indicators"] from result["detailed_indicators"][:5]
WithIndicators(result) ==
    IF "detailed_indicators" \in DOMAIN result
    THEN [k \in DOMAIN result \cup {"indicators"} |->
            IF k = "indicators"
            THEN LET d == Take(result.detailed_indicators, 5)
                 IN [i \in 1..Len(d) |->
                       Upper(Get(d[i], "severity", "")) \o ": "
                       \o Get(d[i], "specific_evidence", "")]
            ELSE result[k]]
    ELSE result

\* a variant that is content with one of the two keywords
FallbackAnyKeyword(resp) ==
    [is_ai_generated     |-> resp.has_ai \/ resp.has_generated,
     confidence          |-> 50000,
     indicators          |-> <<"Unable to parse detailed analysis">>,
     detailed_indicators |-> <<>>,
     explanation         |-> "deep_text[:300]"]

\* the keyword fallback when the deep response holds no {...}
Fallback(resp) ==
    [is_ai_generated     |-> resp.has_ai /\ resp.has_generated,
     confidence          |-> 50000,
     indicators          |-> <<"Unable to parse detailed analysis">>,
     detailed_indicators |-> <<>>,
     explanation         |-> "deep_text[:300]"]

\* STAGE 2, from the deep response to the return
DeepStage(resp) ==
    IF resp.kind = "raise" THEN Raised
    ELSE IF resp.json = "invalid" THEN Raised
    ELSE IF JsonMatch(resp) THEN Returned(WithIndicators(resp.obj))
    ELSE Returned(Fallback(resp))

\* a variant without the except clause
DetectNoExcept(stage) == stage

\* except Exception as e: return the error result
DetectExcept(stage) == IF stage.exc THEN Returned(ErrorResult) ELSE stage

-----------------------------------------------------------------------------
(* compare_files_within_submission.  An optional value (None or a dict) is *)
(* the empty sequence or a one-element sequence.                           *)

ReportThreshold == 40000
ForensicThreshold == 60000
CriticalThreshold == 85000
FlagThreshold == 70000
TopMatches == 5

\* for i in range(n): for j in range(i + 1, n), as 1-based positions
RECURSIVE PairsFrom(_, _, _)
PairsFrom(i, j, n) ==
    IF i > n THEN <<>>
    ELSE IF j > n THEN PairsFrom(i + 1, i + 2, n)
    ELSE << <<i, j>> >> \o PairsFrom(i, j + 1, n)

\* a variant that takes each pair in both orders
PairSeqBothOrders(n) ==
    PairsFrom(1, 2, n)
    \o [k \in 1..Len(PairsFrom(1, 2, n)) |->
          <<PairsFrom(1, 2, n)[k][2], PairsFrom(1, 2, n)[k][1]>>]

PairSeq(n) == PairsFrom(1, 2, n)

\* the forensic request is made for this similarity
NeedsForensic(has_client, similarity) == has_client /\ similarity > ForensicThreshold

\* the try body around the forensic request: detailed_analysis, if assigned
ForensicStage(resp) ==
    IF resp.kind = "raise" THEN Raised
    ELSE IF resp.json = "invalid" THEN Raised
    ELSE IF JsonMatch(resp) THEN Returned(resp.obj)
    ELSE FallThrough

\* a variant without the except clause
ForensicNoExcept(stage) == stage

\* except Exception as e: print, detailed_analysis stays None
ForensicExcept(stage) == IF stage.exc THEN FallThrough ELSE stage

\* a variant that tests the lower threshold first
VerdictSuspiciousFirst(similarity) ==
    IF similarity > FlagThreshold THEN "Suspicious"
    ELSE IF similarity > CriticalThreshold THEN "Critical"
    ELSE "Similar"

\* "verdict": "Critical" if similarity > 0.85 else "Suspicious" if
\* similarity > 0.70 else "Similar"
VerdictOf(similarity) ==
    IF similarity > CriticalThreshold THEN "Critical"
    ELSE IF similarity > FlagThreshold THEN "Suspicious"
    ELSE "Similar"

\* match_data
MatchData(file1, file2, similarity, detailed_analysis) ==
    LET matching_sections ==
            find_matching_sections(file1.content, file2.content, MinLength)
    IN [file1                 |-> file1.filename,
        file2                 |-> file2.filename,
        similarity_percentage |-> Round2(similarity),
        matching_sections     |-> Len(matching_sections),
        top_matches           |-> Take(matching_sections, TopMatches),
        verdict               |-> VerdictOf(similarity),
        flagged               |-> similarity > FlagThreshold,
        detailed_analysis     |-> detailed_analysis]

\* a variant that reports from 40% on
ReportedAtLeast(similarity) == similarity >= ReportThreshold

\* if similarity > 0.40
Reported(similarity) == similarity > ReportThreshold

\* One iteration of the inner loop on (file1, file2): whether the iteration
\* raised, the entries it appended to matches and whether it asked the LLM.
\* resp is the answer to the forensic request, read only when one is made.
CompareIteration(file1, file2, has_client, resp) ==
    LET similarity == calculate_text_similarity(file1.content, file2.content)
        asks == Reported(similarity) /\ NeedsForensic(has_client, similarity)
        stage == IF asks THEN ForensicExcept(ForensicStage(resp)) ELSE FallThrough
        detailed_analysis == IF stage.returns THEN <<stage.value>> ELSE <<>>
    IN [exc      |-> stage.exc,
        asks     |-> asks,
        appended |-> IF Reported(similarity) /\ ~stage.exc
                     THEN << MatchData(file1, file2, similarity, detailed_analysis) >>
                     ELSE <<>>]

-----------------------------------------------------------------------------
(* check_against_submissions: the three detection phases                   *)

\* the submission_id argument
SubmissionId == "s0"

InternalConfidence == 95000
CrossReportThreshold == 40000
CrossFlagThreshold == 70000
AIFlagThreshold == 50000
MaxReportMatches == 10

\* FEATURE 1: the SimilarityMatch of one internal match
InternalSimilarityMatch(match) ==
    [submission_id         |-> "internal_" \o match.file2,
     student_name          |-> "Same submission: " \o match.file2,
     similarity_percentage |-> match.similarity_percentage,
     matching_sections     |->
         [i \in 1..Len(match.top_matches) |->
             [source_text |-> "source_text[:100]",
              target_text |-> "target_text[:100]",
              similarity  |-> match.top_matches[i].similarity,
              similarity_type |-> "float"]],
     match_type            |-> "internal_copy",
     confidence            |-> InternalConfidence,
     flagged               |-> match.flagged]

\* FEATURE 1: the flagged section of one flagged internal match
InternalFlaggedSection(match) ==
    [source_submission |-> match.file1,
     similarity        |-> match.similarity_percentage,
     type              |-> "internal_plagiarism"]

RECURSIVE InternalMatches(_)
InternalMatches(ms) ==
    IF ms = <<>> THEN <<>>
    ELSE <<InternalSimilarityMatch(ms[1])>> \o InternalMatches(Tail(ms))

\* a variant that makes a flagged section of every internal match
RECURSIVE InternalFlaggedAll(_)
InternalFlaggedAll(ms) ==
    IF ms = <<>> THEN <<>>
    ELSE <<InternalFlaggedSection(ms[1])>> \o InternalFlaggedAll(Tail(ms))

RECURSIVE InternalFlagged(_)
InternalFlagged(ms) ==
    IF ms = <<>> THEN <<>>
    ELSE (IF ms[1].flagged THEN <<InternalFlaggedSection(ms[1])>> ELSE <<>>)
         \o InternalFlagged(Tail(ms))

\* a variant that queries the index whether or not it was constructed
CrossEnabledAlways(text) == StripNonEmpty(text)

\* FEATURE 2 runs
CrossEnabled(text) == use_vector_db /\ vector_manager /\ StripNonEmpty(text)

\* a variant that counts the chunks, not the submissions
ChunksCounted(docs, submission_id) ==
    Cardinality({ k \in 1..Len(docs) : docs[k].submission_id # submission_id })

\* len(set(submission ids of the docs other than the submission's own))
DistinctSources(docs, submission_id) ==
    Cardinality({ docs[i].submission_id : i \in
                    { k \in 1..Len(docs) : docs[k].submission_id # submission_id } })

\* a variant that does not skip the submission's own chunks
RECURSIVE GroupIdsWithSelf(_, _, _)
GroupIdsWithSelf(docs, submission_id, seen) ==
    IF docs = <<>> THEN <<>>
    ELSE IF docs[1].submission_id \in seen
         THEN GroupIdsWithSelf(Tail(docs), submission_id, seen)
         ELSE <<docs[1].submission_id>>
              \o GroupIdsWithSelf(Tail(docs), submission_id, seen \cup {docs[1].submission_id})

\* keys of submission_groups, in insertion order
RECURSIVE GroupIds(_, _, _)
GroupIds(docs, submission_id, seen) ==
    IF docs = <<>> THEN <<>>
    ELSE IF docs[1].submission_id = submission_id \/ docs[1].submission_id \in seen
         THEN GroupIds(Tail(docs), submission_id, seen)
         ELSE <<docs[1].submission_id>>
              \o GroupIds(Tail(docs), submission_id, seen \cup {docs[1].submission_id})

\* submission_groups[other_id]["chunks"]
RECURSIVE GroupChunks(_, _)
GroupChunks(docs, other_id) ==
    IF docs = <<>> THEN <<>>
    ELSE (IF docs[1].submission_id = other_id THEN <<docs[1].page_content>> ELSE <<>>)
         \o GroupChunks(Tail(docs), other_id)

\* submission_groups[other_id]["student"]: the first doc's student_name
GroupStudent(docs, other_id) ==
    docs[CHOOSE i \in 1..Len(docs) :
            /\ docs[i].submission_id = other_id
            /\ \A k \in 1..(i - 1) : docs[k].submission_id # other_id].student_name

CrossSimilarity(text, docs, other_id) ==
    calculate_text_similarity(text, Join(GroupChunks(docs, other_id), <<"\n">>))

CrossSimilarityMatch(text, docs, other_id) ==
    LET similarity == CrossSimilarity(text, docs, other_id)
    IN [submission_id         |-> other_id,
        student_name          |-> GroupStudent(docs, other_id),
        similarity_percentage |-> similarity,
        matching_sections     |->
            << [source_text |-> "submission_text[:200]",
                target_text |-> "other_content[:200]",
                similarity  |-> similarity,
                similarity_type |-> "str"] >>,
        match_type            |-> "cross_submission",
        confidence            |-> similarity,
        flagged               |-> similarity > CrossFlagThreshold]

CrossFlaggedSection(text, docs, other_id) ==
    [source_submission |-> GroupStudent(docs, other_id) \o " (" \o other_id \o ")",
     similarity        |-> CrossSimilarity(text, docs, other_id),
     type              |-> "cross_plagiarism"]

RECURSIVE CrossMatches(_, _, _)
CrossMatches(text, docs, ids) ==
    IF ids = <<>> THEN <<>>
    ELSE (IF CrossSimilarity(text, docs, ids[1]) >= CrossReportThreshold
          THEN <<CrossSimilarityMatch(text, docs, ids[1])>> ELSE <<>>)
         \o CrossMatches(text, docs, Tail(ids))

RECURSIVE CrossFlagged(_, _, _)
CrossFlagged(text, docs, ids) ==
    IF ids = <<>> THEN <<>>
    ELSE (IF CrossSimilarity(text, docs, ids[1]) >= CrossReportThreshold
             /\ CrossSimilarity(text, docs, ids[1]) > CrossFlagThreshold
          THEN <<CrossFlaggedSection(text, docs, ids[1])>> ELSE <<>>)
         \o CrossFlagged(text, docs, Tail(ids))

\* The try body of FEATURE 2 on the index's answer: whether it raised and
\* what it added to similarity_matches, flagged_sections and sources_checked.
CrossStage(text, submission_id, resp) ==
    IF resp.kind = "raise"
    THEN [exc |-> TRUE, matches |-> <<>>, flagged |-> <<>>, sources |-> 0]
    ELSE LET ids == GroupIds(resp.docs, submission_id, {})
         IN [exc     |-> FALSE,
             matches |-> CrossMatches(text, resp.docs, ids),
             flagged |-> CrossFlagged(text, resp.docs, ids),
             sources |-> DistinctSources(resp.docs, submission_id)]

\* a variant without the except clause
CrossNoExcept(stage) == stage

\* except Exception as e: print, go on to FEATURE 3
CrossExcept(stage) == [stage EXCEPT !.exc = FALSE]

\* a variant that classifies whitespace too
AIEnabledOnBlank(text, type) == client /\ type = "code"

\* FEATURE 3 runs
AIEnabled(text, type) == client /\ type = "code" /\ StripNonEmpty(text)

\* str.lower on a verdict
LowerWord(w) == CASE w = "AI_GENERATED" -> "ai_generated"
                  [] w = "Likely_AI"    -> "likely_ai"
                  [] w = "SUSPICIOUS"   -> "suspicious"
                  [] OTHER              -> w

\* a variant that takes any verdict for AI
IsAIAnyVerdict(detection) ==
    Get(detection, "is_ai_generated", FALSE) \/ Get(detection, "verdict", "") # ""

\* a variant that does not consult the verdict
IsAIFlagOnly(detection) == Get(detection, "is_ai_generated", FALSE)

\* is_ai after the verdict has been consulted
IsAI(detection) ==
    LET is_ai == Get(detection, "is_ai_generated", FALSE)
        verdict == LowerWord(Get(detection, "verdict", ""))
    IN IF ~is_ai /\ verdict # ""
       THEN verdict \in {"ai_generated", "likely_ai", "suspicious"}
       ELSE is_ai

\* a variant without the clamp
NormalizeConfidenceNoClamp(confidence_raw) ==
    IF confidence_raw > 1000 THEN confidence_raw ELSE confidence_raw * 100

\* confidence_raw / 100.0 if confidence_raw > 1 else confidence_raw, clamped
\* to [0, 1]; the argument in thousandths, the result a ratio
NormalizeConfidence(confidence_raw) ==
    Max(0, Min(100000,
        IF confidence_raw > 1000 THEN confidence_raw ELSE confidence_raw * 100))

AISimilarityMatch(detection) ==
    LET confidence == NormalizeConfidence(Get(detection, "confidence", 0))
        indicators == Take(Get(detection, "indicators",
                               Get(detection, "detailed_indicators", <<>>)), 3)
    IN [submission_id         |-> "ai_generated",
        student_name          |-> "AI Tool (ChatGPT/Copilot/Claude)",
        similarity_percentage |-> confidence,
        matching_sections     |->
            [i \in 1..Len(indicators) |->
                [source_text |-> "indicator[:100]",
                 target_text |-> "AI pattern detected",
                 similarity  |-> confidence,
                 similarity_type |-> "str"]],
        match_type            |-> "ai_generated",
        confidence            |-> confidence,
        flagged               |-> confidence > AIFlagThreshold]

AIFlaggedSection(detection) ==
    [source_submission |-> "AI_Tool",
     similarity        |-> NormalizeConfidence(Get(detection, "confidence", 0)),
     type              |-> "ai_generated"]

\* The try body of FEATURE 3 after detect_ai_generated_code has returned
AIStage(detection) ==
    [exc     |-> FALSE,
     matches |-> IF IsAI(detection) THEN <<AISimilarityMatch(detection)>> ELSE <<>>,
     flagged |-> IF IsAI(detection)
                    /\ NormalizeConfidence(Get(detection, "confidence", 0)) > AIFlagThreshold
                 THEN <<AIFlaggedSection(detection)>> ELSE <<>>,
     sources |-> 1]

-----------------------------------------------------------------------------
(* check_against_submissions: score, risk level, recommendations, report   *)

RECURSIVE MaxSimilarity(_)
MaxSimilarity(ms) ==
    IF Len(ms) = 1 THEN ms[1].similarity_percentage
    ELSE Max(ms[1].similarity_percentage, MaxSimilarity(Tail(ms)))

\* a variant that reads the first match only
OriginalityOfFirst(ms) ==
    IF ms # <<>> THEN Max(0, 100000 - ms[1].similarity_percentage) ELSE 100000

\* a variant that reads only the matches the report will list
OriginalityOfReported(ms) ==
    IF ms # <<>> THEN Max(0, 100000 - MaxSimilarity(Take(ms, MaxReportMatches)))
    ELSE 100000

\* a variant that scores a run without matches 0
OriginalityZeroWithoutMatches(ms) ==
    IF ms # <<>> THEN Max(0, 100000 - MaxSimilarity(ms)) ELSE 0

\* originality_score, before it is rounded for the report
OriginalityScore(ms) ==
    IF ms # <<>> THEN Max(0, 100000 - MaxSimilarity(ms)) ELSE 100000

\* _determine_risk_level
DetermineRiskLevel(originality_score) ==
    IF originality_score >= 85000 THEN "low"
    ELSE IF originality_score >= 70000 THEN "medium"
    ELSE IF originality_score >= 50000 THEN "high"
    ELSE "critical"

\* a variant that follows the thresholds of the risk level
OverallAssessmentByRisk(originality_score) ==
    IF originality_score >= 85000 THEN "Excellent Originality"
    ELSE IF originality_score >= 70000 THEN "Minor Concerns"
    ELSE IF originality_score >= 50000 THEN "Moderate Risk"
    ELSE "High Risk"

\* _generate_recommendations, the overall assessment: the sentence by its
\* heading
OverallAssessment(originality_score) ==
    IF originality_score >= 90000 THEN "Excellent Originality"
    ELSE IF originality_score >= 70000 THEN "Minor Concerns"
    ELSE IF originality_score >= 50000 THEN "Moderate Risk"
    ELSE "High Risk"

\* a variant that writes one paragraph for every match, in the order of the
\* matches
RecommendationsPerMatch(originality_score, ms, type) ==
    LET Heading(t) == CASE t = "ai_generated"  -> "AI-Generated Content"
                        [] t = "internal_copy" -> "Internal File Duplication"
                        [] t = "exact"         -> "Exact/Near-Exact Matches"
                        [] t = "paraphrased"   -> "Paraphrasing Patterns"
                        [] OTHER               -> ""
        Known(m) == Heading(m.match_type) # ""
        known == SelectSeq(ms, Known)
    IN << [heading |-> OverallAssessment(originality_score), count |-> 0] >>
       \o [i \in 1..Len(known) |->
             [heading |-> Heading(known[i].match_type), count |-> 1]]
       \o << [heading |-> IF type = "code" THEN "Code Submission Guidelines"
                           ELSE "Written Work Guidelines",
              count |-> 0] >>
       \o (IF originality_score < 70000
           THEN << [heading |-> "Recommended Next Steps", count |-> 0] >>
           ELSE <<>>)

\* _generate_recommendations: each paragraph by its heading and the count
\* it quotes
GenerateRecommendations(originality_score, ms, type) ==
    LET OfType(t) == LET P(m) == m.match_type = t IN SelectSeq(ms, P)
        ai_generated == OfType("ai_generated")
        internal_copies == OfType("internal_copy")
        exact_matches == OfType("exact")
        paraphrased == OfType("paraphrased")
        HighConf(m) == m.confidence >= 70000
        HighSim(m) == m.similarity_percentage >= 80000
        high_confidence_ai == SelectSeq(ai_generated, HighConf)
        high_similarity == SelectSeq(internal_copies, HighSim)
        Para(heading, count) == << [heading |-> heading, count |-> count] >>
    IN Para(OverallAssessment(originality_score), 0)
       \o (IF ai_generated = <<>> THEN <<>>
           ELSE IF high_confidence_ai # <<>>
                THEN Para("AI-Generated Content", Len(high_confidence_ai))
                ELSE Para("Possible AI Assistance", Len(ai_generated)))
       \o (IF internal_copies = <<>> THEN <<>>
           ELSE IF high_similarity # <<>>
                THEN Para("Internal File Duplication", Len(high_similarity))
                ELSE Para("Code Similarity Detected", Len(internal_copies)))
       \o (IF exact_matches = <<>> THEN <<>>
           ELSE Para("Exact/Near-Exact Matches", Len(exact_matches)))
       \o (IF paraphrased = <<>> THEN <<>>
           ELSE Para("Paraphrasing Patterns", Len(paraphrased)))
       \o (IF type = "code" THEN Para("Code Submission Guidelines", 0)
           ELSE Para("Written Work Guidelines", 0))
       \o (IF originality_score < 70000 THEN Para("Recommended Next Steps", 0)
           ELSE <<>>)

\* max(m.similarity_percentage ...) first, as a sort by severity would put it
RECURSIVE InsertBySimilarity(_, _)
InsertBySimilarity(sorted, m) ==
    IF sorted = <<>> THEN <<m>>
    ELSE IF sorted[1].similarity_percentage >= m.similarity_percentage
         THEN <<sorted[1]>> \o InsertBySimilarity(Tail(sorted), m)
         ELSE <<m>> \o sorted

RECURSIVE SortBySimilarity(_)
SortBySimilarity(ms) ==
    IF ms = <<>> THEN <<>>
    ELSE InsertBySimilarity(SortBySimilarity(SubSeq(ms, 1, Len(ms) - 1)), ms[Len(ms)])

\* a variant that orders the matches by similarity
ReportMatchesSorted(ms) == Take(SortBySimilarity(ms), MaxReportMatches)

\* similarity_matches[:10]
ReportMatches(ms) == Take(ms, MaxReportMatches)

\* a variant that reads the rounded score
RiskOfRounded(ms) == DetermineRiskLevel(Round2(OriginalityScore(ms)))

\* risk_level = self._determine_risk_level(originality_score, similarity_matches)
RiskLevel(ms) == DetermineRiskLevel(OriginalityScore(ms))

\* a variant that does not round
ReportScoreUnrounded(ms) == OriginalityScore(ms)

\* overall_originality_score = round(originality_score, 2)
ReportScore(ms) == Round2(OriginalityScore(ms))

\* PlagiarismReport(...)
MakeReport(type, ms, flagged, sources) ==
    [submission_id             |-> SubmissionId,
     submission_type           |-> type,
     overall_originality_score |-> ReportScore(ms),
     total_matches_found       |-> Len(ms),
     similarity_matches        |-> ReportMatches(ms),
     flagged_sections          |-> flagged,
     risk_level                |-> RiskLevel(ms),
     recommendations           |-> GenerateRecommendations(OriginalityScore(ms), ms, type),
     sources_checked           |-> sources]

-----------------------------------------------------------------------------
(* generate_plagiarism_report_markdown *)

\* f"{section['similarity']:.1f}" on the first two sections of a match: the
\* format code f is unknown for a str
SectionsFormat(match) ==
    \A k \in 1..Min(2, Len(match.matching_sections)) :
        match.matching_sections[k].similarity_type = "float"

\* the bullet block of one match
MatchBlock(i, match) ==
    [number     |-> i,
     flag       |-> IF match.flagged THEN "alarm" ELSE "warning",
     similarity |-> match.similarity_percentage,
     submission |-> match.submission_id,
     student    |-> match.student_name,
     match_type |-> match.match_type,
     confidence |-> match.confidence,
     sections   |-> [k \in 1..Min(2, Len(match.matching_sections)) |->
                       match.matching_sections[k].similarity]]

\* the document: summary, one block per match, the flagged sections, the
\* recommendations
Markdown(rep) ==
    [score           |-> rep.overall_originality_score,
     risk            |-> rep.risk_level,
     total           |-> rep.total_matches_found,
     sources         |-> rep.sources_checked,
     blocks          |-> [i \in 1..Len(rep.similarity_matches) |->
                            MatchBlock(i, rep.similarity_matches[i])],
     flagged         |-> rep.flagged_sections,
     recommendations |-> rep.recommendations]

\* the body of generate_plagiarism_report_markdown
MarkdownStage(rep) ==
    IF \A i \in 1..Len(rep.similarity_matches) : SectionsFormat(rep.similarity_matches[i])
    THEN Returned(Markdown(rep))
    ELSE Raised

-----------------------------------------------------------------------------
(* Inputs of the model *)

MaxFiles == 3
MaxCheckFiles == 2
MaxDocs == 2

ManyFiles == 5

T_abc == <<"a", "b", "c">>
T_abcd == <<"a", "b", "c", "d">>
T_c == <<"C", " ">>
T_ab == <<"A", "b">>
T_cx == <<"c", "x">>
T_blank == <<" ">>

\* file contents for compare_files_within_submission: the pairs score
\* 0, 40, 50, 66.67, 80, 85.71 and 100 percent
FilePool == {T_abc, T_abcd, T_c, T_ab}

\* file contents for check_against_submissions: 50 and 100 percent
CheckFilePool == {T_abc, T_c}

\* submission_text: a text, or whitespace only
TextPool == {T_abc, T_blank}

SubmissionTypes == {"code", "writeup"}

FileName(i) == "f" \o ToString(i)

\* files_content with at most n files over pool
FileLists(n, pool) ==
    UNION { { [i \in 1..k |-> [filename |-> FileName(i), content |-> c[i]]] :
                c \in [1..k -> pool] } : k \in 0..n }

\* files_content with exactly n files over pool
FileListsOf(n, pool) ==
    { [i \in 1..n |-> [filename |-> FileName(i), content |-> c[i]]] :
        c \in [1..n -> pool] }

\* n files that all differ and are pairwise 50% similar (while n <= 5)
DistinctFiles(n) ==
    [i \in 1..n |-> [filename |-> FileName(i),
                     content  |-> <<"a", <<"b", "c", "d", "e", "x">>[((i - 1) % 5) + 1]>>]]

\* the documents the index may return: chunks of three submissions, the
\* first of them the submission under test
Doc(id, text) == [submission_id |-> id, student_name |-> "student " \o id,
                  page_content |-> text]
DocPool == {Doc(SubmissionId, T_abc), Doc("s1", T_abc), Doc("s1", T_cx),
            Doc("s2", T_abc)}
DocLists(n) == UNION { [1..k -> DocPool] : k \in 0..n }

IndexResponses ==
    {[kind |-> "raise"]} \cup { [kind |-> "docs", docs |-> d] : d \in DocLists(MaxDocs) }

NoResponse == [kind |-> "none"]

ForensicResponses ==
    {Raises, NoJson(FALSE, FALSE), InvalidJson,
     JsonObject([is_copy_paste |-> TRUE, verdict |-> "direct_copy"])}

Opt(key, values) == {EmptyDict} \cup { key :> v : v \in values }

TriageObjects ==
    { a @@ b @@ c @@ d :
        a \in Opt("confidence_level", {"high", "medium"}),
        b \in Opt("proceed_to_deep_analysis", BOOLEAN),
        c \in Opt("quick_verdict", {"ai_generated", "human_written"}),
        d \in Opt("initial_confidence", {95000}) }

Indicator == [severity |-> "high", specific_evidence |-> "evidence"]

DeepObjects ==
    { a @@ b @@ c @@ d :
        a \in Opt("is_ai_generated", BOOLEAN),
        b \in Opt("verdict", {"ai_generated", "human_written", "Likely_AI"}),
        c \in Opt("confidence", {900, 50004, 85000}),
        d \in Opt("detailed_indicators", {<<Indicator>>}) }

\* what the LLM may answer when detect_ai_generated_code is called on its own
TriageResponses ==
    {Raises, NoJson(FALSE, FALSE), InvalidJson} \cup { JsonObject(d) : d \in TriageObjects }

DeepResponses ==
    {Raises, InvalidJson}
    \cup { NoJson(a, g) : a \in BOOLEAN, g \in BOOLEAN }
    \cup { JsonObject(d) : d \in DeepObjects }

\* and inside check_against_submissions
CheckTriageResponses ==
    {Raises,
     JsonObject([confidence_level |-> "high", proceed_to_deep_analysis |-> FALSE,
                 quick_verdict |-> "ai_generated", initial_confidence |-> 95000]),
     JsonObject([confidence_level |-> "medium", quick_verdict |-> "uncertain"])}

CheckDeepResponses ==
    {Raises, NoJson(TRUE, TRUE),
     JsonObject([is_ai_generated |-> TRUE, confidence |-> 900]),
     JsonObject([is_ai_generated |-> TRUE, confidence |-> 50004,
                 detailed_indicators |-> <<Indicator>>]),
     JsonObject([is_ai_generated |-> TRUE, confidence |-> 15004]),
     JsonObject([is_ai_generated |-> TRUE, confidence |-> 12000]),
     JsonObject([is_ai_generated |-> TRUE, confidence |-> 1000]),
     JsonObject([is_ai_generated |-> TRUE, confidence |-> 50000]),
     JsonObject([is_ai_generated |-> TRUE, confidence |-> 150000]),
     JsonObject([is_ai_generated |-> TRUE, confidence |-> -5000]),
     JsonObject([is_ai_generated |-> TRUE, verdict |-> "ai_generated"]),
     JsonObject([is_ai_generated |-> FALSE, verdict |-> "Likely_AI", confidence |-> 85000]),
     JsonObject([is_ai_generated |-> FALSE, verdict |-> "human_written", confidence |-> 20000]),
     JsonObject([is_ai_generated |-> FALSE, verdict |-> "heavily_ai_assisted",
                 confidence |-> 85000]),
     JsonObject([verdict |-> "SUSPICIOUS", confidence |-> 85000])}

\* the arguments of calculate_text_similarity called on its own
T_tide == <<"t", "i", "d", "e">>
T_diet == <<"d", "i", "e", "t">>
T_Tide == <<"T", "i", "d", "e", " ">>

SimilarityPool == {<<>>, T_abc, T_abcd, T_ab, T_c, T_tide, T_diet, T_Tide}

\* the arguments of find_matching_sections called on its own: texts of 51
\* words (a word of 30 characters whose first k are replaced, 49 words of one
\* letter, a word of 21), which split into two chunks (all the words, and the
\* last word); the long word alone and with its last two letters replaced
\* (one chunk each); a text too short for a chunk
Letters == <<"a", "b", "c", "d", "e", "f", "g", "h", "i", "j", "k", "l", "m",
             "n", "o", "p", "q", "r", "s", "t", "u", "v", "w", "x", "y", "z">>

LongWord == [i \in 1..21 |-> Letters[i]]

FirstWord(k) ==
    [i \in 1..30 |-> IF i <= k THEN "0" ELSE Letters[((i - 1) % 26) + 1]]

SectionText(k) ==
    Join(<<FirstWord(k)>> \o [i \in 1..49 |-> <<Letters[((i - 1) % 26) + 1]>>]
         \o <<LongWord>>, <<" ">>)

LongWordChanged == [i \in 1..21 |-> IF i > 19 THEN "0" ELSE Letters[i]]

SectionTexts == {SectionText(0), SectionText(30), LongWord, LongWordChanged, T_abc}

\* min_length: the default, and the shortest chunk there is
MinLengths == {MinChunkChars + 1, MinLength}

\* the arguments of _generate_recommendations called on its own: a match of
\* each match_type, in any order and number up to MaxRecMatches, and scores
\* on both sides of 70
MaxRecMatches == 4

RecMatch(type, similarity, confidence) ==
    [submission_id         |-> "m_" \o type,
     student_name          |-> "student",
     similarity_percentage |-> similarity,
     matching_sections     |-> <<>>,
     match_type            |-> type,
     confidence            |-> confidence,
     flagged               |-> similarity > 70000]

RecMatchPool ==
    {RecMatch("ai_generated", 85000, 85000),
     RecMatch("internal_copy", 100000, 95000),
     RecMatch("exact", 96000, 96000),
     RecMatch("paraphrased", 75000, 75000),
     RecMatch("cross_submission", 50000, 50000)}

RecMatchLists == UNION { [1..k -> RecMatchPool] : k \in 0..MaxRecMatches }

RecScores == {95000, 70000, 69990}

-----------------------------------------------------------------------------
(* The detector and its three public methods *)

call_locals == <<done_pairs, matches, comparisons, llm_log, triage_resp,
                 deep_resp, forensic_resp, index_resp, similarity_matches,
                 flagged_sections, sources_checked, ai_detection, report, args,
                 retval, raised>>

\* the locals of a call that has not started
Fresh ==
    /\ done_pairs = 0
    /\ matches = <<>>
    /\ comparisons = <<>>
    /\ llm_log = <<>>
    /\ triage_resp = NoResponse
    /\ deep_resp = NoResponse
    /\ forensic_resp = NoResponse
    /\ index_resp = NoResponse
    /\ similarity_matches = <<>>
    /\ flagged_sections = <<>>
    /\ sources_checked = 0
    /\ ai_detection = EmptyDict
    /\ report = EmptyDict
    /\ args = EmptyDict
    /\ retval = <<>>
    /\ raised = FALSE

\* __init__: use_vector_db is dropped when VectorStoreManager() raises; the
\* client exists when an API key is found
Init ==
    /\ \E key \in BOOLEAN :
          /\ client = key
          /\ model = IF key THEN "gpt-4o-mini" ELSE None
    /\ thresholds = InitialThresholds
    /\ \E wanted \in BOOLEAN, constructed \in BOOLEAN :
          /\ use_vector_db = (wanted /\ constructed)
          /\ vector_manager = (wanted /\ constructed)
    /\ op = "none"
    /\ pc = "idle"
    /\ submission_text = <<>>
    /\ submission_type = "writeup"
    /\ files_content = <<>>
    /\ Fresh

\* an exception leaves the public method
Propagate ==
    /\ raised' = TRUE
    /\ pc' = "done"

---- 
(* detect_ai_generated_code *)

CallDetect ==
    /\ pc = "idle"
    /\ op' = "detect"
    /\ pc' = "detect"
    /\ \E code \in TextPool : submission_text' = code
    /\ UNCHANGED <<config, submission_type, files_content, call_locals>>

\* where detect_ai_generated_code returns to
AfterDetect == IF op = "check" THEN "ai_post" ELSE "done"

\* if not self.client: return
DetectNoClient ==
    /\ pc = "detect"
    /\ ~client
    /\ ai_detection' = NoClientResult
    /\ pc' = AfterDetect
    /\ UNCHANGED <<config, op, submission_text, submission_type, files_content,
                   args, retval,
                   done_pairs, matches, comparisons, llm_log, triage_resp,
                   deep_resp, forensic_resp, index_resp, similarity_matches,
                   flagged_sections, sources_checked, report, raised>>

\* How a stage of detect_ai_generated_code ends: an exception that leaves it
\* is caught by the except clause of FEATURE 3 when check_against_submissions
\* made the call.
EndStage(stage, next) ==
    IF stage.exc
    THEN IF op = "check"
         THEN pc' = "assemble" /\ UNCHANGED <<ai_detection, raised>>
         ELSE Propagate /\ UNCHANGED ai_detection
    ELSE IF stage.returns
         THEN ai_detection' = stage.value /\ pc' = AfterDetect /\ UNCHANGED raised
         ELSE pc' = next /\ UNCHANGED <<ai_detection, raised>>

\* a variant of STAGE 1 that goes to the deep analysis without the triage
\* request
TriageSkipped ==
    /\ pc = "detect"
    /\ client
    /\ pc' = "deep"
    /\ UNCHANGED <<config, op, submission_text, submission_type, files_content,
                   call_locals>>

\* STAGE 1: the triage request and what follows from its answer
Triage ==
    /\ pc = "detect"
    /\ client
    /\ \E resp \in (IF op = "check" THEN CheckTriageResponses ELSE TriageResponses) :
          /\ llm_log' = Append(llm_log, [kind |-> "triage"])
          /\ triage_resp' = resp
          /\ EndStage(DetectExcept(TriageStage(resp)), "deep")
    /\ UNCHANGED <<config, op, submission_text, submission_type, files_content,
                   args, retval,
                   done_pairs, matches, comparisons, deep_resp, forensic_resp,
                   index_resp, similarity_matches, flagged_sections,
                   sources_checked, report>>

\* STAGE 2: the deep-analysis request and what follows from its answer
Deep ==
    /\ pc = "deep"
    /\ \E resp \in (IF op = "check" THEN CheckDeepResponses ELSE DeepResponses) :
          /\ llm_log' = Append(llm_log, [kind |-> "deep"])
          /\ deep_resp' = resp
          /\ EndStage(DetectExcept(DeepStage(resp)), "done")
    /\ UNCHANGED <<config, op, submission_text, submission_type, files_content,
                   args, retval,
                   done_pairs, matches, comparisons, triage_resp, forensic_resp,
                   index_resp, similarity_matches, flagged_sections,
                   sources_checked, report>>

----
(* compare_files_within_submission *)

CallCompare ==
    /\ pc = "idle"
    /\ op' = "compare"
    /\ pc' = "compare"
    /\ \E files \in FileLists(MaxFiles, FilePool) : files_content' = files
    /\ UNCHANGED <<config, submission_text, submission_type, call_locals>>

NumPairs == Len(PairSeq(Len(files_content)))

\* one iteration of the inner loop
ComparePair ==
    /\ pc = "compare"
    /\ done_pairs < NumPairs
    /\ LET p == PairSeq(Len(files_content))[done_pairs + 1]
           file1 == files_content[p[1]]
           file2 == files_content[p[2]]
           asks == CompareIteration(file1, file2, client, Raises).asks
       IN \E resp \in (IF asks THEN ForensicResponses ELSE {NoResponse}) :
             LET it == CompareIteration(file1, file2, client, resp)
             IN /\ comparisons' = Append(comparisons, p)
                /\ llm_log' = IF it.asks
                              THEN Append(llm_log, [kind |-> "forensic", pair |-> p])
                              ELSE llm_log
                /\ forensic_resp' = resp
                /\ IF it.exc
                   THEN Propagate /\ UNCHANGED <<matches, done_pairs>>
                   ELSE /\ matches' = matches \o it.appended
                        /\ done_pairs' = done_pairs + 1
                        /\ UNCHANGED <<pc, raised>>
    /\ UNCHANGED <<config, op, submission_text, submission_type, files_content,
                   args, retval,
                   triage_resp, deep_resp, index_resp, similarity_matches,
                   flagged_sections, sources_checked, ai_detection, report>>

\* return matches
CompareReturn ==
    /\ pc = "compare"
    /\ op = "compare"
    /\ done_pairs = NumPairs
    /\ pc' = "done"
    /\ UNCHANGED <<config, op, submission_text, submission_type, files_content,
                   call_locals>>

----
(* check_against_submissions *)

CallCheck ==
    /\ pc = "idle"
    /\ op' = "check"
    /\ pc' = "internal"
    /\ \E text \in TextPool, type \in SubmissionTypes,
          files \in FileLists(MaxCheckFiles, CheckFilePool) :
          /\ submission_text' = text
          /\ submission_type' = type
          /\ files_content' = files
    /\ UNCHANGED <<config, call_locals>>

\* check_against_submissions is called on a submission of many files
CallCheckMany ==
    /\ pc = "idle"
    /\ op' = "check"
    /\ pc' = "internal"
    /\ \E text \in TextPool, type \in SubmissionTypes,
          files \in FileListsOf(ManyFiles, CheckFilePool) \cup {DistinctFiles(ManyFiles)} :
          /\ submission_text' = text
          /\ submission_type' = type
          /\ files_content' = files
    /\ UNCHANGED <<config, call_locals>>

\* FEATURE 1: if files_content and len(files_content) > 1
InternalPhase ==
    /\ pc = "internal"
    /\ pc' = IF Len(files_content) > 1 THEN "compare" ELSE "cross"
    /\ UNCHANGED <<config, op, submission_text, submission_type, files_content,
                   call_locals>>

\* FEATURE 1: for match in internal_matches; the list and the answers
\* behind it are not read again
InternalPhaseFinish ==
    /\ pc = "compare"
    /\ op = "check"
    /\ done_pairs = NumPairs
    /\ similarity_matches' = similarity_matches \o InternalMatches(matches)
    /\ flagged_sections' = flagged_sections \o InternalFlagged(matches)
    /\ matches' = <<>>
    /\ forensic_resp' = NoResponse
    /\ pc' = "cross"
    /\ UNCHANGED <<config, op, submission_text, submission_type, files_content,
                   args, retval,
                   done_pairs, comparisons, llm_log, triage_resp, deep_resp,
                   index_resp, sources_checked, ai_detection, report, raised>>

\* a variant of FEATURE 2 whose except clause gives up the index, as __init__
\* does when the index cannot be constructed
CrossPhaseDisablesIndex ==
    /\ pc = "cross"
    /\ IF CrossEnabled(submission_text)
       THEN \E resp \in IndexResponses :
               LET stage == CrossExcept(CrossStage(submission_text, SubmissionId, resp))
               IN /\ index_resp' = resp
                  /\ use_vector_db' = (resp.kind # "raise")
                  /\ similarity_matches' = similarity_matches \o stage.matches
                  /\ flagged_sections' = flagged_sections \o stage.flagged
                  /\ sources_checked' = sources_checked + stage.sources
                  /\ pc' = "ai"
                  /\ UNCHANGED raised
       ELSE /\ pc' = "ai"
            /\ UNCHANGED <<use_vector_db, index_resp, similarity_matches,
                           flagged_sections, sources_checked, raised>>
    /\ UNCHANGED <<client, model, thresholds, vector_manager, op, submission_text,
                   submission_type, files_content, args, retval, done_pairs,
                   matches, comparisons, llm_log, triage_resp, deep_resp,
                   forensic_resp, ai_detection, report>>

\* FEATURE 2
CrossPhase ==
    /\ pc = "cross"
    /\ IF CrossEnabled(submission_text)
       THEN \E resp \in IndexResponses :
               LET stage == CrossExcept(CrossStage(submission_text, SubmissionId, resp))
               IN /\ index_resp' = resp
                  /\ IF stage.exc
                     THEN Propagate /\ UNCHANGED <<similarity_matches, flagged_sections,
                                                   sources_checked>>
                     ELSE /\ similarity_matches' = similarity_matches \o stage.matches
                          /\ flagged_sections' = flagged_sections \o stage.flagged
                          /\ sources_checked' = sources_checked + stage.sources
                          /\ pc' = "ai"
                          /\ UNCHANGED raised
       ELSE /\ pc' = "ai"
            /\ UNCHANGED <<index_resp, similarity_matches, flagged_sections,
                           sources_checked, raised>>
    /\ UNCHANGED <<config, op, submission_text, submission_type, files_content,
                   args, retval,
                   done_pairs, matches, comparisons, llm_log, triage_resp,
                   deep_resp, forensic_resp, ai_detection, report>>

\* FEATURE 3: if self.client and submission_type == "code" and submission_text.strip()
AIPhase ==
    /\ pc = "ai"
    /\ pc' = IF AIEnabled(submission_text, submission_type) THEN "detect" ELSE "assemble"
    /\ UNCHANGED <<config, op, submission_text, submission_type, files_content,
                   call_locals>>

\* FEATURE 3, once detect_ai_generated_code has returned
AIPhaseFinish ==
    /\ pc = "ai_post"
    /\ LET stage == AIStage(ai_detection)
       IN /\ similarity_matches' = similarity_matches \o stage.matches
          /\ flagged_sections' = flagged_sections \o stage.flagged
          /\ sources_checked' = sources_checked + stage.sources
    /\ pc' = "assemble"
    /\ UNCHANGED <<config, op, submission_text, submission_type, files_content,
                   args, retval,
                   done_pairs, matches, comparisons, llm_log, triage_resp,
                   deep_resp, forensic_resp, index_resp, ai_detection, report,
                   raised>>

\* the score, the risk level, the recommendations and the report
Assemble ==
    /\ pc = "assemble"
    /\ report' = MakeReport(submission_type, similarity_matches, flagged_sections,
                            sources_checked)
    /\ pc' = "done"
    /\ UNCHANGED <<config, op, submission_text, submission_type, files_content,
                   args, retval,
                   done_pairs, matches, comparisons, llm_log, triage_resp,
                   deep_resp, forensic_resp, index_resp, similarity_matches,
                   flagged_sections, sources_checked, ai_detection, raised>>

\* the method has returned (or raised); the detector is ready for the next call
Return ==
    /\ pc = "done"
    /\ op' = "none"
    /\ pc' = "idle"
    /\ submission_text' = <<>>
    /\ submission_type' = "writeup"
    /\ files_content' = <<>>
    /\ done_pairs' = 0
    /\ matches' = <<>>
    /\ comparisons' = <<>>
    /\ llm_log' = <<>>
    /\ triage_resp' = NoResponse
    /\ deep_resp' = NoResponse
    /\ forensic_resp' = NoResponse
    /\ index_resp' = NoResponse
    /\ similarity_matches' = <<>>
    /\ flagged_sections' = <<>>
    /\ sources_checked' = 0
    /\ ai_detection' = EmptyDict
    /\ report' = EmptyDict
    /\ args' = EmptyDict
    /\ retval' = <<>>
    /\ raised' = FALSE
    /\ UNCHANGED config

----
(* generate_plagiarism_report_markdown on the report check_against_submissions
   returned *)

RenderMarkdown ==
    /\ pc = "done"
    /\ op = "check"
    /\ ~raised
    /\ op' = "render"
    /\ LET stage == MarkdownStage(report)
       IN IF stage.exc
          THEN raised' = TRUE /\ UNCHANGED retval
          ELSE retval' = <<stage.value>> /\ UNCHANGED raised
    /\ UNCHANGED <<config, pc, submission_text, submission_type, files_content,
                   done_pairs, matches, comparisons, llm_log, triage_resp,
                   deep_resp, forensic_resp, index_resp, similarity_matches,
                   flagged_sections, sources_checked, ai_detection, report,
                   args>>

----
(* calculate_text_similarity called on its own *)

CallSimilarity ==
    /\ pc = "idle"
    /\ op' = "similarity"
    /\ pc' = "similarity"
    /\ \E text1 \in SimilarityPool, text2 \in SimilarityPool :
          args' = [text1 |-> text1, text2 |-> text2]
    /\ UNCHANGED <<config, submission_text, submission_type, files_content,
                   done_pairs, matches, comparisons, llm_log, triage_resp,
                   deep_resp, forensic_resp, index_resp, similarity_matches,
                   flagged_sections, sources_checked, ai_detection, report,
                   retval, raised>>

Similarity ==
    /\ pc = "similarity"
    /\ retval' = << calculate_text_similarity(args.text1, args.text2) >>
    /\ pc' = "done"
    /\ UNCHANGED <<config, op, submission_text, submission_type, files_content,
                   done_pairs, matches, comparisons, llm_log, triage_resp,
                   deep_resp, forensic_resp, index_resp, similarity_matches,
                   flagged_sections, sources_checked, ai_detection, report,
                   args, raised>>

----
(* find_matching_sections called on its own *)

CallSections ==
    /\ pc = "idle"
    /\ op' = "sections"
    /\ pc' = "sections"
    /\ \E text1 \in SectionTexts, text2 \in SectionTexts, min_length \in MinLengths :
          args' = [text1 |-> text1, text2 |-> text2, min_length |-> min_length]
    /\ UNCHANGED <<config, submission_text, submission_type, files_content,
                   done_pairs, matches, comparisons, llm_log, triage_resp,
                   deep_resp, forensic_resp, index_resp, similarity_matches,
                   flagged_sections, sources_checked, ai_detection, report,
                   retval, raised>>

Sections ==
    /\ pc = "sections"
    /\ retval' = << find_matching_sections(args.text1, args.text2, args.min_length) >>
    /\ pc' = "done"
    /\ UNCHANGED <<config, op, submission_text, submission_type, files_content,
                   done_pairs, matches, comparisons, llm_log, triage_resp,
                   deep_resp, forensic_resp, index_resp, similarity_matches,
                   flagged_sections, sources_checked, ai_detection, report,
                   args, raised>>

----
(* _generate_recommendations called on its own *)

CallRecommend ==
    /\ pc = "idle"
    /\ op' = "recommend"
    /\ pc' = "recommend"
    /\ \E score \in RecScores, ms \in RecMatchLists, type \in SubmissionTypes :
          args' = [originality_score |-> score, matches |-> ms,
                   submission_type |-> type]
    /\ UNCHANGED <<config, submission_text, submission_type, files_content,
                   done_pairs, matches, comparisons, llm_log, triage_resp,
                   deep_resp, forensic_resp, index_resp, similarity_matches,
                   flagged_sections, sources_checked, ai_detection, report,
                   retval, raised>>

Recommend ==
    /\ pc = "recommend"
    /\ retval' = << GenerateRecommendations(args.originality_score, args.matches,
                                            args.submission_type) >>
    /\ pc' = "done"
    /\ UNCHANGED <<config, op, submission_text, submission_type, files_content,
                   done_pairs, matches, comparisons, llm_log, triage_resp,
                   deep_resp, forensic_resp, index_resp, similarity_matches,
                   flagged_sections, sources_checked, ai_detection, report,
                   args, raised>>

----
(* Specifications *)

\* check_against_submissions, with everything it calls, and the rendering of
\* its report
Next ==
    \/ CallCheck
    \/ InternalPhase
    \/ ComparePair
    \/ InternalPhaseFinish
    \/ CrossPhase
    \/ AIPhase
    \/ Triage
    \/ Deep
    \/ AIPhaseFinish
    \/ Assemble
    \/ RenderMarkdown
    \/ Return

Spec == Init /\ [][Next]_vars

\* detect_ai_generated_code called on its own
NextDetect ==
    \/ CallDetect
    \/ DetectNoClient
    \/ Triage
    \/ Deep
    \/ Return

SpecDetect == Init /\ [][NextDetect]_vars

\* compare_files_within_submission called on its own
NextCompare ==
    \/ CallCompare
    \/ ComparePair
    \/ CompareReturn
    \/ Return

SpecCompare == Init /\ [][NextCompare]_vars

\* check_against_submissions on submissions of many files, on a detector
\* without an LLM client
InitMany == Init /\ ~client

NextMany ==
    \/ CallCheckMany
    \/ InternalPhase
    \/ ComparePair
    \/ InternalPhaseFinish
    \/ CrossPhase
    \/ AIPhase
    \/ Assemble
    \/ Return

SpecMany == InitMany /\ [][NextMany]_vars

\* calculate_text_similarity called on its own
NextSimilarity ==
    \/ CallSimilarity
    \/ Similarity
    \/ Return

SpecSimilarity == Init /\ [][NextSimilarity]_vars

\* find_matching_sections called on its own
NextSections ==
    \/ CallSections
    \/ Sections
    \/ Return

SpecSections == Init /\ [][NextSections]_vars

\* _generate_recommendations called on its own
NextRecommend ==
    \/ CallRecommend
    \/ Recommend
    \/ Return

SpecRecommend == Init /\ [][NextRecommend]_vars

-----------------------------------------------------------------------------
(* Properties *)

\* check_against_submissions has returned a report
CheckReturned == op = "check" /\ pc = "done" /\ ~raised

\* detect_ai_generated_code, called on its own, has returned
DetectReturned == op = "detect" /\ pc = "done" /\ ~raised

\* compare_files_within_submission, called on its own, has returned
CompareReturned == op = "compare" /\ pc = "done" /\ ~raised

\* the similarity percentages of all matches detected in the run
DetectedSimilarities ==
    { similarity_matches[i].similarity_percentage : i \in 1..Len(similarity_matches) }

HighestSimilarity ==
    CHOOSE x \in DetectedSimilarities : \A y \in DetectedSimilarities : x >= y

\* 100 minus the highest similarity, clamped to [0, 100]; 100 without matches
ClampedScore ==
    IF DetectedSimilarities = {} THEN 100000
    ELSE Max(0, Min(100000, 100000 - HighestSimilarity))

\* C1, as stated: the report's overall_originality_score equals 100 minus the
\* maximum similarity_percentage over all matches detected in the run,
\* clamped to [0, 100].
C1_ScoreIsHundredMinusMax ==
    CheckReturned => report.overall_originality_score = ClampedScore

\* C1, amended: the report's overall_originality_score equals 100 minus the
\* maximum similarity_percentage over all matches detected in the run,
\* clamped to [0, 100] and then rounded to two decimal places; it stays in
\* [0, 100] for every confidence the classifier reports.
C1_ScoreIsRoundedHundredMinusMax ==
    CheckReturned =>
        /\ report.overall_originality_score = Round2(ClampedScore)
        /\ report.overall_originality_score \in 0..100000

\* a report whose highest match is a cross-submission match of 66.666...%:
\* the score is 33.33
C1_Witness ==
    /\ CheckReturned
    /\ Len(similarity_matches) >= 2
    /\ HighestSimilarity = 66666
    /\ report.overall_originality_score = 33330

\* the thresholds of the risk level, read off a score
RiskByThresholds(score) ==
    IF score >= 85000 THEN "low"
    ELSE IF score >= 70000 THEN "medium"
    ELSE IF score >= 50000 THEN "high"
    ELSE "critical"

\* C2: in every report, risk_level is the function of the report's
\* overall_originality_score given by the thresholds >= 85 low, >= 70 medium,
\* >= 50 high, else critical.
C2_RiskFollowsReportedScore ==
    CheckReturned => report.risk_level = RiskByThresholds(report.overall_originality_score)

ReportFields ==
    {"submission_id", "submission_type", "overall_originality_score",
     "total_matches_found", "similarity_matches", "flagged_sections",
     "risk_level", "recommendations", "sources_checked"}

\* C3: no exception of a detection phase leaves check_against_submissions:
\* whatever the LLM calls and the index query do, every step of the call has
\* a next step until it returns a complete PlagiarismReport.
C3_NoExceptionLeavesCheck ==
    op = "check" =>
        /\ ~raised
        /\ pc = "internal" => ENABLED InternalPhase
        /\ pc = "compare" => done_pairs <= NumPairs
        /\ pc = "cross" => ENABLED CrossPhase
        /\ pc = "ai" => ENABLED AIPhase
        /\ pc = "detect" => (ENABLED Triage \/ ENABLED DetectNoClient)
        /\ pc = "deep" => ENABLED Deep
        /\ pc = "ai_post" => ENABLED AIPhaseFinish
        /\ pc = "assemble" => ENABLED Assemble
        /\ pc = "done" => DOMAIN report = ReportFields

\* a report returned although the index query and the triage request raised
C3_Witness ==
    /\ CheckReturned
    /\ index_resp.kind = "raise"
    /\ triage_resp.kind = "raise"
    /\ DOMAIN report = ReportFields

\* the LLM client raised on the triage or on the deep-analysis request
LLMRaised == triage_resp.kind = "raise" \/ deep_resp.kind = "raise"

\* C4: detect_ai_generated_code never raises; when the LLM client raises on
\* the triage or the deep-analysis request it returns is_ai_generated false,
\* confidence 0 and a non-empty explanation.
C4_DetectNeverRaises ==
    op = "detect" =>
        /\ ~raised
        /\ (pc = "done" /\ LLMRaised) =>
              /\ ai_detection.is_ai_generated = FALSE
              /\ ai_detection.confidence = 0
              /\ ai_detection.explanation # ""

\* the deep-analysis request raised and the call returned the error result
C4_Witness ==
    /\ DetectReturned
    /\ deep_resp.kind = "raise"
    /\ ai_detection.is_ai_generated = FALSE
    /\ ai_detection.confidence = 0

\* the deep-analysis response did not parse as JSON
DeepUnparsed == deep_resp.kind = "text" /\ deep_resp.json # "object"

\* the result of the keyword heuristic on the deep-analysis response
IsKeywordFallback ==
    /\ ai_detection.is_ai_generated = (deep_resp.has_ai /\ deep_resp.has_generated)
    /\ ai_detection.confidence = 50000

\* C5, as stated: when the deep-analysis response cannot be parsed as JSON,
\* is_ai_generated is true exactly when the text contains both "ai" and
\* "generated", and confidence is 50.
C5_UnparsedFallsBack ==
    (DetectReturned /\ DeepUnparsed) => IsKeywordFallback

\* C5, amended: when the deep-analysis response holds no {...} span at all,
\* is_ai_generated is true exactly when the text contains both "ai" and
\* "generated", and confidence is 50; when it holds a {...} span that is not
\* valid JSON, the result is is_ai_generated false with confidence 0.
C5_NoJsonFallsBack ==
    (DetectReturned /\ DeepUnparsed) =>
        /\ deep_resp.json = "none" => IsKeywordFallback
        /\ deep_resp.json = "invalid" =>
              /\ ai_detection.is_ai_generated = FALSE
              /\ ai_detection.confidence = 0

\* a deep-analysis text without braces that names both keywords
C5_Witness ==
    /\ DetectReturned
    /\ deep_resp.kind = "text"
    /\ deep_resp.json = "none"
    /\ deep_resp.has_ai /\ deep_resp.has_generated
    /\ ai_detection.is_ai_generated = TRUE
    /\ ai_detection.confidence = 50000

TriageOnly == << [kind |-> "triage"] >>
TriageThenDeep == << [kind |-> "triage"], [kind |-> "deep"] >>

\* C6, as stated: each call to detect_ai_generated_code issues one or two
\* requests, the triage request first, the deep-analysis request second.
C6_OneOrTwoRequests ==
    (op = "detect" /\ pc = "done") => llm_log \in {TriageOnly, TriageThenDeep}

\* C6, amended: each call to detect_ai_generated_code on a detector with an
\* LLM client issues one or two requests, the triage request first, the
\* deep-analysis request second; without a client it issues none.
C6_RequestsWithClient ==
    op = "detect" =>
        /\ llm_log \in {<<>>, TriageOnly, TriageThenDeep}
        /\ pc = "done" =>
              IF client THEN llm_log \in {TriageOnly, TriageThenDeep}
              ELSE llm_log = <<>>

\* a call that issued the triage request and then the deep-analysis request
C6_Witness ==
    /\ DetectReturned
    /\ client
    /\ llm_log = TriageThenDeep
    /\ deep_resp.kind = "text"

\* the triage response parsed to an object
TriageParsed == triage_resp.kind = "text" /\ triage_resp.json = "object"

\* the parsed triage object has confidence_level "high" and does not request
\* the deep analysis
TriageIsDecisive ==
    /\ "confidence_level" \in DOMAIN triage_resp.obj
    /\ triage_resp.obj.confidence_level = "high"
    /\ "proceed_to_deep_analysis" \in DOMAIN triage_resp.obj
    /\ triage_resp.obj.proceed_to_deep_analysis = FALSE

TriageQuickVerdict ==
    IF "quick_verdict" \in DOMAIN triage_resp.obj
    THEN triage_resp.obj.quick_verdict ELSE ""

PhaseRank(match_type) ==
    CASE match_type = "internal_copy"    -> 1
      [] match_type = "cross_submission" -> 2
      [] match_type = "ai_generated"     -> 3
      [] OTHER                           -> 0

\* C8: in every report, similarity_matches is in detection order: the
\* internal_copy matches, then the cross_submission matches, then the
\* ai_generated match, whatever their similarities.
C8_MatchesInPhaseOrder ==
    CheckReturned =>
        LET ms == report.similarity_matches
        IN /\ \A i \in 1..Len(ms) : PhaseRank(ms[i].match_type) \in 1..3
           /\ \A i \in 1..Len(ms), j \in 1..Len(ms) :
                 i < j => PhaseRank(ms[i].match_type) <= PhaseRank(ms[j].match_type)
           /\ Cardinality({ i \in 1..Len(ms) : ms[i].match_type = "ai_generated" }) <= 1

\* a report with one match of each phase, the least similar one first
C8_Witness ==
    /\ CheckReturned
    /\ Len(report.similarity_matches) = 3
    /\ report.similarity_matches[1].match_type = "internal_copy"
    /\ report.similarity_matches[2].match_type = "cross_submission"
    /\ report.similarity_matches[3].match_type = "ai_generated"
    /\ report.similarity_matches[1].similarity_percentage
         < report.similarity_matches[2].similarity_percentage

\* the unordered pairs of n files
UnorderedPairs(n) == { p \in (1..n) \X (1..n) : p[1] < p[2] }

PairSimilarity(p) ==
    calculate_text_similarity(files_content[p[1]].content, files_content[p[2]].content)

\* the entries of matches for the pair p
EntriesFor(p) ==
    { k \in 1..Len(matches) :
        /\ matches[k].file1 = files_content[p[1]].filename
        /\ matches[k].file2 = files_content[p[2]].filename }

\* C9: compare_files_within_submission compares every unordered pair of the
\* n files exactly once, never a file with itself, and its result holds an
\* entry for a pair exactly when the pair's similarity exceeds 40%, never two.
C9_AllPairsOnce ==
    CompareReturned =>
        LET n == Len(files_content)
        IN /\ Len(comparisons) = (n * (n - 1)) \div 2
           /\ { comparisons[k] : k \in 1..Len(comparisons) } = UnorderedPairs(n)
           /\ \A p \in UnorderedPairs(n) :
                 /\ Cardinality(EntriesFor(p)) <= 1
                 /\ (EntriesFor(p) # {}) <=> (PairSimilarity(p) > 40000)
           /\ Len(matches) = Cardinality({ p \in UnorderedPairs(n) : EntriesFor(p) # {} })

\* three files: one pair reported, one pair at exactly 40% and one pair
\* without anything in common left out
C9_Witness ==
    /\ CompareReturned
    /\ Len(files_content) = 3
    /\ Len(comparisons) = 3
    /\ Len(matches) = 1
    /\ \E p \in UnorderedPairs(3) : PairSimilarity(p) = 40000 /\ EntriesFor(p) = {}

\* the forensic requests of the log that name the pair p
ForensicRequests(p) ==
    { k \in 1..Len(llm_log) : llm_log[k] = [kind |-> "forensic", pair |-> p] }

\* the pairs the loop has been through
PairsDone == { PairSeq(Len(files_content))[k] : k \in 1..done_pairs }

ForensicFailed ==
    \/ forensic_resp.kind = "raise"
    \/ forensic_resp.kind = "text" /\ forensic_resp.json # "object"

\* C10: a forensic request is issued for a pair exactly when a client is
\* configured and the pair's similarity exceeds 60%; when the request raises
\* or its response does not parse, the pair is still reported with the fields
\* derived from its similarity and detailed_analysis null, and the loop goes
\* on through the remaining pairs.
C10_ForensicBestEffort ==
    op = "compare" =>
        /\ ~raised
        /\ \A k \in 1..Len(llm_log) : llm_log[k].kind = "forensic"
        /\ \A p \in PairsDone :
              /\ Cardinality(ForensicRequests(p)) <= 1
              /\ (ForensicRequests(p) # {}) <=> (client /\ PairSimilarity(p) > 60000)
        /\ (done_pairs > 0 /\ ForensicFailed) =>
              LET p == PairSeq(Len(files_content))[done_pairs]
                  m == matches[Len(matches)]
              IN /\ matches # <<>>
                 /\ m.file1 = files_content[p[1]].filename
                 /\ m.file2 = files_content[p[2]].filename
                 /\ m.similarity_percentage = Round2(PairSimilarity(p))
                 /\ m.flagged = (PairSimilarity(p) > 70000)
                 /\ m.detailed_analysis = <<>>
        /\ done_pairs <= NumPairs
        /\ pc = "done" => done_pairs = NumPairs

\* three files, three reported pairs: the analysis of the first failed, the
\* last one was analysed all the same
C10_Witness ==
    /\ CompareReturned
    /\ client
    /\ Len(matches) = 3
    /\ Cardinality(ForensicRequests(<<1, 2>>)) = 1
    /\ matches[1].detailed_analysis = <<>>
    /\ matches[3].detailed_analysis # <<>>

\* the compare loop, called on its own or by check_against_submissions, is
\* through
CompareLoopDone ==
    /\ op \in {"compare", "check"}
    /\ pc = "compare"
    /\ done_pairs = NumPairs

\* the verdict the similarity bands give
VerdictByBands(s) ==
    IF s > 85000 THEN "Critical"
    ELSE IF s > 70000 THEN "Suspicious"
    ELSE "Similar"

\* C11: every pair reported by compare_files_within_submission has verdict
\* "Critical" if its similarity is above 85%, "Suspicious" if above 70% and at
\* most 85%, otherwise "Similar"; flagged is true exactly when the similarity
\* is above 70%, that is exactly for the verdicts Critical and Suspicious.
C11_VerdictBands ==
    CompareReturned =>
        \A k \in 1..Len(matches) :
           \E p \in UnorderedPairs(Len(files_content)) :
              LET similarity == PairSimilarity(p)
              IN /\ matches[k].file1 = files_content[p[1]].filename
                 /\ matches[k].file2 = files_content[p[2]].filename
                 /\ matches[k].verdict = VerdictByBands(similarity)
                 /\ matches[k].flagged = (similarity > 70000)
                 /\ matches[k].flagged <=> matches[k].verdict \in {"Critical", "Suspicious"}

\* three reported pairs, one of each verdict
C11_Witness ==
    /\ CompareReturned
    /\ Len(matches) = 3
    /\ { matches[k].verdict : k \in 1..3 } = {"Critical", "Suspicious", "Similar"}
    /\ { matches[k].flagged : k \in 1..3 } = {TRUE, FALSE}

\* files_content is two files of the same content
TwoIdenticalFiles ==
    /\ Len(files_content) = 2
    /\ files_content[1].content = files_content[2].content

InternalCopies ==
    { i \in 1..Len(report.similarity_matches) :
        report.similarity_matches[i].match_type = "internal_copy" }

\* C12: given exactly two files of identical content, the compare loop
\* reports exactly one pair, with similarity_percentage 100 and verdict
\* "Critical", and the report of check_against_submissions on those files
\* holds exactly one internal_copy match, with similarity_percentage >= 95
\* and flagged.
C12_IdenticalFiles ==
    TwoIdenticalFiles =>
        /\ CompareLoopDone =>
              /\ Len(matches) = 1
              /\ matches[1].similarity_percentage = 100000
              /\ matches[1].verdict = "Critical"
        /\ (op = "check" /\ pc = "done") =>
              /\ ~raised
              /\ Cardinality(InternalCopies) = 1
              /\ \A i \in InternalCopies :
                    /\ report.similarity_matches[i].similarity_percentage >= 95000
                    /\ report.similarity_matches[i].flagged

\* a report on two identical files with its one internal_copy match
C12_Witness ==
    /\ CheckReturned
    /\ TwoIdenticalFiles
    /\ Cardinality(InternalCopies) = 1
    /\ report.similarity_matches[1].match_type = "internal_copy"
    /\ report.similarity_matches[1].similarity_percentage = 100000
    /\ report.similarity_matches[1].flagged

\* the index answered the query of this call with documents
IndexAnswered == op = "check" /\ index_resp.kind = "docs"

\* the positions of the cross_submission matches detected
CrossFound ==
    { i \in 1..Len(similarity_matches) :
        similarity_matches[i].match_type = "cross_submission" }

\* the submission ids among the documents returned, without the one under test
OtherIds ==
    { index_resp.docs[k].submission_id : k \in 1..Len(index_resp.docs) } \ {SubmissionId}

\* the similarity of the submission text to all returned chunks of id
WholeSimilarity(id) ==
    calculate_text_similarity(submission_text,
                              Join(GroupChunks(index_resp.docs, id), <<"\n">>))

\* C13: in the cross-submission phase the chunks returned by the index are
\* grouped by submission id without the submission under test: no
\* cross_submission match names the submission under test, each other id has
\* at most one match, it has one exactly when its whole-document similarity
\* is >= 40%, and that match is flagged exactly when the similarity is > 70%.
C13_CrossGrouping ==
    IndexAnswered =>
        /\ \A i \in CrossFound :
              /\ similarity_matches[i].submission_id # SubmissionId
              /\ similarity_matches[i].submission_id \in OtherIds
        /\ \A id \in OtherIds :
              LET found == { i \in CrossFound : similarity_matches[i].submission_id = id }
              IN /\ Cardinality(found) <= 1
                 /\ (found # {}) <=> (WholeSimilarity(id) >= 40000)
                 /\ \A i \in found :
                       /\ similarity_matches[i].similarity_percentage = WholeSimilarity(id)
                       /\ similarity_matches[i].flagged = (WholeSimilarity(id) > 70000)

\* the index returned a chunk of the submission under test and a chunk of
\* another one that is 40% similar: one match, not flagged
C13_Witness ==
    /\ CheckReturned
    /\ index_resp.kind = "docs"
    /\ Len(index_resp.docs) = 2
    /\ index_resp.docs[1].submission_id = SubmissionId
    /\ OtherIds = {"s1"}
    /\ WholeSimilarity("s1") = 40000
    /\ Cardinality(CrossFound) = 1
    /\ \A i \in CrossFound : ~similarity_matches[i].flagged

\* the index could not be constructed, or its query raised
IndexUnavailable == ~vector_manager \/ index_resp.kind = "raise"

\* FEATURE 3 applies to the call
AIApplies ==
    /\ client
    /\ submission_type = "code"
    /\ \E i \in 1..Len(submission_text) : submission_text[i] # " "

\* detect_ai_generated_code has been called and has returned
AIRan == DOMAIN ai_detection # {}

\* C14: if the index is unavailable (it could not be constructed or its
\* query raises), the cross-submission phase adds no match and no flagged
\* section, the AI-detection phase still runs and a report is returned.
C14_IndexUnavailable ==
    (op = "check" /\ pc = "done") =>
        /\ ~raised
        /\ IndexUnavailable =>
              /\ CrossFound = {}
              /\ \A k \in 1..Len(flagged_sections) :
                    flagged_sections[k].type # "cross_plagiarism"
              /\ AIApplies => (AIRan /\ llm_log # <<>>)
              /\ DOMAIN report = ReportFields
              /\ report.total_matches_found = Len(similarity_matches)

\* the query raised; the AI phase ran all the same and found an AI match
C14_Witness ==
    /\ CheckReturned
    /\ index_resp.kind = "raise"
    /\ AIRan
    /\ Len(report.similarity_matches) = 1
    /\ report.similarity_matches[1].match_type = "ai_generated"

\* C15: in every report, sources_checked is the number of distinct submission
\* ids other than the one under test among the documents the index returned,
\* plus one exactly when the AI-detection phase ran; it is 0 when neither
\* phase ran.
C15_SourcesChecked ==
    CheckReturned =>
        /\ report.sources_checked =
              (IF index_resp.kind = "docs" THEN Cardinality(OtherIds) ELSE 0)
              + (IF AIRan THEN 1 ELSE 0)
        /\ AIRan <=> AIApplies
        /\ (index_resp.kind = "none" /\ ~AIRan) => report.sources_checked = 0

\* two chunks of one other submission and the AI phase: 2 sources
C15_Witness ==
    /\ CheckReturned
    /\ index_resp.kind = "docs"
    /\ Len(index_resp.docs) = 2
    /\ OtherIds = {"s1"}
    /\ index_resp.docs[1].submission_id = "s1"
    /\ index_resp.docs[2].submission_id = "s1"
    /\ AIRan
    /\ report.sources_checked = 2

\* how many requests of this kind the call has issued
Requests(kind) == Cardinality({ k \in 1..Len(llm_log) : llm_log[k].kind = kind })

\* the classifier's result says the code is AI-generated: by its flag, or by
\* its verdict whatever the case of its letters
IndicatesAI ==
    \/ "is_ai_generated" \in DOMAIN ai_detection /\ ai_detection.is_ai_generated
    \/ /\ "verdict" \in DOMAIN ai_detection
       /\ LowerWord(ai_detection.verdict) \in {"ai_generated", "likely_ai", "suspicious"}

\* the classifier's confidence as a ratio: taken as a percentage when above 1,
\* then clamped to [0, 1]
ClassifierConfidence ==
    LET raw == IF "confidence" \in DOMAIN ai_detection THEN ai_detection.confidence ELSE 0
        ratio == IF raw > 1000 THEN raw ELSE raw * 100
    IN IF ratio < 0 THEN 0 ELSE IF ratio > 100000 THEN 100000 ELSE ratio

\* the positions of the ai_generated matches detected
AIFound ==
    { i \in 1..Len(similarity_matches) :
        similarity_matches[i].match_type = "ai_generated" }

IsFlagged(m) == m.flagged

\* the category a flagged section has for a match of this type
SectionType(match_type) ==
    CASE match_type = "internal_copy"    -> "internal_plagiarism"
      [] match_type = "cross_submission" -> "cross_plagiarism"
      [] match_type = "ai_generated"     -> "ai_generated"

\* the flagged sections are, one for one and in the same order, the flagged
\* matches of ms
SectionsMatchFlagged(sections, ms) ==
    LET flagged == SelectSeq(ms, IsFlagged)
    IN /\ Len(sections) = Len(flagged)
       /\ \A k \in 1..Len(flagged) :
             /\ k <= Len(sections)
             /\ sections[k].similarity = flagged[k].similarity_percentage
             /\ sections[k].type = SectionType(flagged[k].match_type)

\* C17, as stated: in every report, the flagged sections correspond one for
\* one to the flagged matches of the report's similarity_matches, with the
\* same similarity value.
C17_SectionsOfReportedMatches ==
    CheckReturned =>
        SectionsMatchFlagged(report.flagged_sections, report.similarity_matches)

\* C17, amended: in every report, the flagged sections correspond one for one
\* to the flagged matches detected in the run, with the same similarity
\* value; the report's similarity_matches is the first ten of the matches
\* detected, so each of its flagged matches has exactly one flagged section,
\* while a flagged section may belong to a match it does not list.
C17_SectionsOfDetectedMatches ==
    CheckReturned =>
        /\ SectionsMatchFlagged(report.flagged_sections, similarity_matches)
        /\ report.total_matches_found = Len(similarity_matches)
        /\ Len(report.similarity_matches) = Min(10, Len(similarity_matches))
        /\ \A i \in 1..Len(report.similarity_matches) :
              report.similarity_matches[i] = similarity_matches[i]

\* ten internal matches, some of them not flagged, and a flagged
\* cross_submission match that the report does not list
C17_Witness ==
    /\ CheckReturned
    /\ Len(similarity_matches) = 11
    /\ similarity_matches[11].match_type = "cross_submission"
    /\ similarity_matches[11].flagged
    /\ \E i \in 1..10 : ~similarity_matches[i].flagged
    /\ Len(report.similarity_matches) = 10
    /\ report.flagged_sections[Len(report.flagged_sections)].type = "cross_plagiarism"

\* C18: a run of check_against_submissions that detects no match yields
\* overall_originality_score 100, risk_level "low", total_matches_found 0 and
\* no flagged section; a writeup without files on a detector without index
\* is such a run.
C18_NoMatchReport ==
    CheckReturned =>
        /\ similarity_matches = <<>> =>
              /\ report.overall_originality_score = 100000
              /\ report.risk_level = "low"
              /\ report.total_matches_found = 0
              /\ report.similarity_matches = <<>>
              /\ report.flagged_sections = <<>>
        /\ (submission_type = "writeup" /\ files_content = <<>> /\ ~vector_manager) =>
              similarity_matches = <<>>

\* the report on a writeup without files, no index configured
C18_Witness ==
    /\ CheckReturned
    /\ submission_type = "writeup"
    /\ files_content = <<>>
    /\ ~vector_manager
    /\ \E i \in 1..Len(submission_text) : submission_text[i] # " "
    /\ report.overall_originality_score = 100000
    /\ report.risk_level = "low"
    /\ report.total_matches_found = 0

\* C19: in every report, overall_originality_score is 100 if and only if the
\* run detected no match; a report with at least one match has a score below
\* 100.
C19_HundredIffNoMatch ==
    CheckReturned =>
        (report.overall_originality_score = 100000 <=> report.total_matches_found = 0)

\* the overall-assessment sentence each risk level would have, were the
\* sentence keyed to the level: the sentences of the reports at scores 100,
\* 84.996, 50 and 0
AssessmentOfRisk(risk_level) ==
    CASE risk_level = "low"      -> "Excellent Originality"
      [] risk_level = "medium"   -> "Minor Concerns"
      [] risk_level = "high"     -> "Moderate Risk"
      [] risk_level = "critical" -> "High Risk"

\* C20, as stated: the first entry of recommendations is keyed to
\* risk_level: one sentence per risk level, different levels having
\* different sentences.
C20_AssessmentKeyedToRisk ==
    CheckReturned =>
        report.recommendations[1].heading = AssessmentOfRisk(report.risk_level)

\* the overall-assessment sentence the bands of the score give
AssessmentByScore(score) ==
    IF score >= 90000 THEN "Excellent Originality"
    ELSE IF score >= 70000 THEN "Minor Concerns"
    ELSE IF score >= 50000 THEN "Moderate Risk"
    ELSE "High Risk"

\* C20, amended: the first entry of recommendations is keyed to the
\* originality score before rounding: >= 90 "Excellent Originality", >= 70
\* "Minor Concerns", >= 50 "Moderate Risk", else "High Risk".  Reports of
\* risk level medium, high and critical have one sentence each; reports of
\* risk level low have "Excellent Originality" from 90 on and share "Minor
\* Concerns" with the medium ones below 90.
C20_AssessmentKeyedToScore ==
    CheckReturned =>
        /\ report.recommendations[1].heading = AssessmentByScore(ClampedScore)
        /\ report.risk_level = "medium" =>
              report.recommendations[1].heading = "Minor Concerns"
        /\ report.risk_level = "high" =>
              report.recommendations[1].heading = "Moderate Risk"
        /\ report.risk_level = "critical" =>
              report.recommendations[1].heading = "High Risk"
        /\ report.risk_level = "low" =>
              report.recommendations[1].heading
                 = (IF ClampedScore >= 90000 THEN "Excellent Originality"
                    ELSE "Minor Concerns")

\* a report at score 88: risk level low, sentence "Minor Concerns"
C20_Witness ==
    /\ CheckReturned
    /\ report.overall_originality_score = 88000
    /\ report.risk_level = "low"
    /\ report.recommendations[1].heading = "Minor Concerns"

\* _generate_recommendations, called on its own, has returned
RecommendReturned == op = "recommend" /\ pc = "done"

\* the place of a paragraph in the fixed order, by its heading
ParagraphRank(heading) ==
    CASE heading \in {"Excellent Originality", "Minor Concerns",
                      "Moderate Risk", "High Risk"}                     -> 0
      [] heading \in {"AI-Generated Content", "Possible AI Assistance"} -> 1
      [] heading \in {"Internal File Duplication",
                      "Code Similarity Detected"}                       -> 2
      [] heading = "Exact/Near-Exact Matches"                           -> 3
      [] heading = "Paraphrasing Patterns"                              -> 4
      [] heading \in {"Code Submission Guidelines",
                      "Written Work Guidelines"}                        -> 5
      [] heading = "Recommended Next Steps"                             -> 6

\* the match_type behind each per-category paragraph
CategoryOfRank(rank) ==
    CASE rank = 1 -> "ai_generated"
      [] rank = 2 -> "internal_copy"
      [] rank = 3 -> "exact"
      [] rank = 4 -> "paraphrased"

\* the ranks of the paragraphs of recs, in their order
RanksOf(recs) == [i \in 1..Len(recs) |-> ParagraphRank(recs[i].heading)]

\* recs has the fixed order for the given score, matches and type
FixedOrder(recs, score, ms, type) ==
    LET ranks == RanksOf(recs)
        Has(rank) == \E i \in 1..Len(recs) : ranks[i] = rank
    IN /\ Len(recs) >= 2
       /\ ranks[1] = 0
       /\ \A i \in 1..(Len(recs) - 1) : ranks[i] < ranks[i + 1]
       /\ \A rank \in 1..4 :
             Has(rank) <=> \E k \in 1..Len(ms) : ms[k].match_type = CategoryOfRank(rank)
       /\ \E i \in 1..Len(recs) :
             recs[i].heading = (IF type = "code" THEN "Code Submission Guidelines"
                                ELSE "Written Work Guidelines")
       /\ Has(6) <=> score < 70000
       /\ Has(6) => ranks[Len(recs)] = 6

\* C21: recommendations has the fixed order: one overall-assessment entry
\* first, then the per-category paragraphs (AI-generated, internal
\* duplication, exact, paraphrased; each at most once and only when the
\* category has matches), then the one best-practices block of the
\* submission_type, then the next-steps checklist, last, if and only if the
\* originality score is below 70.
C21_FixedOrder ==
    RecommendReturned =>
        FixedOrder(retval[1], args.originality_score, args.matches,
                   args.submission_type)

\* matches given as paraphrased, exact, internal, AI-generated at score
\* 69.99: all seven entries, in the fixed order
C21_Witness ==
    /\ RecommendReturned
    /\ args.originality_score = 69990
    /\ Len(args.matches) = 4
    /\ args.matches[1].match_type = "paraphrased"
    /\ args.matches[2].match_type = "exact"
    /\ args.matches[3].match_type = "internal_copy"
    /\ args.matches[4].match_type = "ai_generated"
    /\ RanksOf(retval[1]) = <<0, 1, 2, 3, 4, 5, 6>>

\* generate_plagiarism_report_markdown has been called on the report
RenderCalled == op = "render" /\ pc = "done"

\* C22: generate_plagiarism_report_markdown returns a markdown document
\* (headline score and risk, one block per match, the recommendations) for
\* every report check_against_submissions can return, reports with
\* cross_submission or ai_generated matches with non-empty matching_sections
\* included; it never raises on such a report.
C22_MarkdownNeverRaises ==
    RenderCalled =>
        /\ ~raised
        /\ Len(retval) = 1
        /\ retval[1].score = report.overall_originality_score
        /\ retval[1].risk = report.risk_level
        /\ Len(retval[1].blocks) = Len(report.similarity_matches)
        /\ retval[1].recommendations = report.recommendations

\* calculate_text_similarity, called on its own, has returned
SimilarityReturned == op = "similarity" /\ pc = "done"

\* C23: calculate_text_similarity is symmetric: for all strings a and b the
\* value for (a, b) is the value for (b, a), the sequence-matching ratio of
\* the case-folded, whitespace-collapsed texts.
C23_Symmetric ==
    SimilarityReturned =>
        retval[1] = calculate_text_similarity(args.text2, args.text1)

\* find_matching_sections, called on its own, has returned
SectionsReturned == op = "sections" /\ pc = "done"

\* the similarity of the chunk pair an entry stands for
ChunkPairSimilarity(entry) ==
    calculate_text_similarity(
        SplitIntoChunks(args.text1, ChunkSize)[entry.source_index + 1],
        SplitIntoChunks(args.text2, ChunkSize)[entry.target_index + 1])

\* the band of a similarity of at least 0.70
MatchTypeByBands(similarity) ==
    IF similarity >= 95000 THEN "exact"
    ELSE IF similarity >= 85000 THEN "near_exact"
    ELSE "paraphrased"

\* C24: find_matching_sections returns only chunk pairs whose similarity is at
\* least 0.70 and whose source chunk has at least min_length characters,
\* sorted in non-increasing order of similarity, and every entry's match_type
\* is exact (>= 0.95), near_exact (>= 0.85) or paraphrased (>= 0.70), never
\* structural.
C24_MatchingSections ==
    SectionsReturned =>
        LET entries == retval[1]
        IN /\ \A k \in 1..Len(entries) :
                 LET similarity == ChunkPairSimilarity(entries[k])
                 IN /\ similarity >= 70000
                    /\ entries[k].similarity = Round2(similarity)
                    /\ entries[k].length >= args.min_length
                    /\ entries[k].length
                          = Len(SplitIntoChunks(args.text1, ChunkSize)[entries[k].source_index + 1])
                    /\ entries[k].match_type = MatchTypeByBands(similarity)
                    /\ entries[k].match_type # "structural"
           /\ \A k \in 1..(Len(entries) - 1) :
                 entries[k].similarity >= entries[k + 1].similarity

\* two texts of two chunks each, min_length 21: the pair of the first chunks
\* (80%, paraphrased) is found first and the pair of the second chunks (100%,
\* exact) last, and the result lists them in the opposite order; the pairs
\* of a first and a second chunk (28%) are left out
C24_Witness ==
    /\ SectionsReturned
    /\ args.min_length = MinChunkChars + 1
    /\ Len(retval[1]) = 2
    /\ retval[1][1].source_index = 1
    /\ retval[1][1].target_index = 1
    /\ retval[1][1].similarity = 100000
    /\ retval[1][1].match_type = "exact"
    /\ retval[1][2].source_index = 0
    /\ retval[1][2].target_index = 0
    /\ retval[1][2].similarity = 80000
    /\ retval[1][2].match_type = "paraphrased"

\* C25: no detection operation changes the detector's own state: thresholds,
\* client, model, use_vector_db and vector_manager are the same after every
\* step of every call, and every call starts from the same locals, so what
\* a call returns does not depend on the calls before it.
C25_DetectorStateUnchanged ==
    [][/\ config' = config
       /\ pc' = "idle" => Fresh']_vars

\* a report has been produced and rendered after LLM requests and an index
\* query, and the detector holds what __init__ set
C25_Witness ==
    /\ RenderCalled
    /\ llm_log # <<>>
    /\ index_resp.kind = "docs"
    /\ client
    /\ model = "gpt-4o-mini"
    /\ use_vector_db
    /\ vector_manager
    /\ thresholds = InitialThresholds

\* submission_text is empty or whitespace only
BlankText == \A i \in 1..Len(submission_text) : IsSpace(submission_text[i])

\* an index was requested and could be constructed
IndexConfigured == use_vector_db /\ vector_manager

\* the call is past its cross-submission phase
CrossPhaseOver ==
    op = "check" /\ pc \in {"ai", "detect", "deep", "ai_post", "assemble", "done"}

\* the pairs of files the internal phase reports
ReportedPairs ==
    { p \in UnorderedPairs(Len(files_content)) : PairSimilarity(p) > 40000 }

\* C26, as stated: on an empty or whitespace-only submission_text only the AI
\* classifier is skipped (no triage request, no ai_generated match, no source
\* counted for it); every other phase behaves as for non-empty text, so a
\* configured index is queried.
C26_OnlyAISkipped ==
    (CrossPhaseOver /\ BlankText) =>
        /\ Requests("triage") = 0
        /\ AIFound = {}
        /\ ~AIRan
        /\ IndexConfigured => index_resp.kind # "none"

\* C26, amended: on an empty or whitespace-only submission_text both the
\* cross-submission phase and the AI classifier are skipped: the index is
\* not queried, no LLM request is made, there is no cross_submission and no
\* ai_generated match and sources_checked stays 0; the internal phase
\* reports the same pairs of files as for any text.  On a text that is not
\* blank a configured index is queried.
C26_BlankSkipsIndexAndAI ==
    op = "check" =>
        /\ BlankText =>
              /\ index_resp.kind = "none"
              /\ Requests("triage") = 0
              /\ Requests("deep") = 0
              /\ ~AIRan
              /\ AIFound = {}
              /\ CrossFound = {}
              /\ sources_checked = 0
        /\ (CrossPhaseOver /\ ~BlankText /\ IndexConfigured) => index_resp.kind # "none"
        /\ pc = "done" =>
              /\ ~raised
              /\ Cardinality(InternalCopies) = Cardinality(ReportedPairs)
              /\ BlankText =>
                    /\ report.sources_checked = 0
                    /\ report.total_matches_found = Cardinality(ReportedPairs)

\* a report on whitespace, submitted as code with two files to a detector
\* with an LLM client and an index: the one internal match, no source checked
C26_Witness ==
    /\ CheckReturned
    /\ BlankText
    /\ submission_type = "code"
    /\ client
    /\ IndexConfigured
    /\ Len(files_content) = 2
    /\ report.total_matches_found = 1
    /\ report.similarity_matches[1].match_type = "internal_copy"
    /\ report.sources_checked = 0

RawConfidence ==
    IF "confidence" \in DOMAIN ai_detection THEN ai_detection.confidence ELSE 0

\* C28: for any numeric confidence of the classifier the ai_generated match
\* has confidence in [0, 1] and similarity_percentage in [0, 100]: a raw
\* value above 1 is divided by 100, a raw value of at most 1 is taken as a
\* fraction (a raw 1 gives similarity 100), and the result is clamped to
\* [0, 1]; the match is flagged exactly when the confidence exceeds 0.50.
C28_ConfidenceNormalized ==
    op = "check" =>
        \A i \in AIFound :
            LET match == similarity_matches[i]
            IN /\ match.confidence >= 0
               /\ match.confidence <= 100000
               /\ match.similarity_percentage >= 0
               /\ match.similarity_percentage <= 100000
               /\ match.similarity_percentage = match.confidence
               /\ (RawConfidence > 1000 /\ RawConfidence <= 100000) =>
                     match.confidence = RawConfidence
               /\ (RawConfidence >= 0 /\ RawConfidence <= 1000) =>
                     match.confidence = RawConfidence * 100
               /\ RawConfidence > 100000 => match.confidence = 100000
               /\ RawConfidence < 0 => match.confidence = 0
               /\ match.flagged <=> match.confidence > 50000
               /\ match.flagged <=>
                     \E k \in 1..Len(flagged_sections) :
                         flagged_sections[k].type = "ai_generated"

\* the classifier returned confidence 1: the match has confidence 1.0 and
\* similarity 100 and is flagged
C28_Witness ==
    /\ CheckReturned
    /\ RawConfidence = 1000
    /\ Cardinality(AIFound) = 1
    /\ \A i \in AIFound :
          /\ similarity_matches[i].confidence = 100000
          /\ similarity_matches[i].similarity_percentage = 100000
          /\ similarity_matches[i].flagged

\* the classifier's is_ai_generated, false when it gave none
FlagOfClassifier ==
    IF "is_ai_generated" \in DOMAIN ai_detection THEN ai_detection.is_ai_generated
    ELSE FALSE

\* the classifier's verdict in lower case, "" when it gave none
VerdictOfClassifier ==
    IF "verdict" \in DOMAIN ai_detection THEN LowerWord(ai_detection.verdict) ELSE ""

TriageWithoutJson == triage_resp.kind = "text" /\ triage_resp.json = "none"

\* the triage response parsed to an object without proceed_to_deep_analysis
TriageOmitsProceed ==
    /\ TriageParsed
    /\ "proceed_to_deep_analysis" \notin DOMAIN triage_resp.obj

====
